---- MODULE Spec2Model ----
(***************************************************************************)
(* Latency sampling and comparison of the old (direct) and new (gateway)   *)
(* deployments.  One behaviour is one comparison of one endpoint by one    *)
(* of the five measuring scripts:                                          *)
(*   gateway   comprehensive-tests/test_gateway_latency.py (asyncio.gather)*)
(*   enhanced  enhanced_latency_test.py                                    *)
(*   quick     quick_latency_test.py                                       *)
(*   health    simple-health-check/test_health_check.py                    *)
(*   custom    custom-endpoints/test_custom_endpoints.py                   *)
(* A batch is the run of probes against one base URL ("old" or "new").     *)
(* In the gateway script the two batches are asyncio tasks, so each await  *)
(* of a GET or of a sleep is a separate step; the other scripts are a      *)
(* single task and a probe (GET + classification) is one step.             *)
(*                                                                         *)
(* Five specifications:                                                    *)
(*   Spec        one comparison, probe by probe                            *)
(*   DriverSpec  the endpoint loops of the gateway, enhanced and custom    *)
(*               drivers, one comparison per step                          *)
(*   ReportSpec  the statistics, the printers and the CSV / Excel report   *)
(*               generators applied to two given series                    *)
(*   StatsSpec   _percentile (four copies) and calculate_stats applied to  *)
(*               a given list of samples                                   *)
(*   FileSpec    the CSV / Excel report generators applied to the results  *)
(*               list of an input file                                     *)
(***************************************************************************)
EXTENDS Integers, Sequences, FiniteSets, TLC

\* ---------------------------------------------------------------- bounds
MaxRequests == 2          \* largest --requests value explored

\* ------------------------------------------------------- program constants
WarmupRequests == 3       \* range(3) of the gateway warm-up loop
ServerErrorFloor == 500   \* status_code < 500 is a sample
HealthErrorFloor == 400   \* status_code >= 400 is rejected by the health check

Batches == {"old", "new"}
Scripts == {"gateway", "enhanced", "quick", "health", "custom"}

\* ------------------------------------------------------------ environment
\* What one GET can do: raise (transport error, timeout) or return a
\* response with a status after some elapsed milliseconds.
Outcomes ==
  { [raised |-> FALSE, status |-> 200, elapsed |-> 10],
    [raised |-> FALSE, status |-> 404, elapsed |-> 20],
    [raised |-> FALSE, status |-> 500, elapsed |-> 30],
    [raised |-> TRUE,  status |-> 0,   elapsed |-> 0] }

\* Optional[float]
None == [kind |-> "None", ms |-> 0]
Latency(ms) == [kind |-> "latency", ms |-> ms]

\* Endpoints and whether they need authentication.
Endpoints == {"/health-check", "/inferred/brands/status", "/inferred/brands",
              "/inferred/logo-url", "/profile"}
auth_required(ep) == ep # "/health-check"

test_endpoints(s) ==
  CASE s = "gateway"  -> {"/health-check", "/inferred/brands/status", "/inferred/logo-url"}
    [] s = "enhanced" -> {"/health-check", "/inferred/brands/status", "/inferred/brands",
                          "/inferred/logo-url"}
    [] s = "quick"    -> {"/health-check"}
    [] s = "health"   -> {"/health-check"}
    [] s = "custom"   -> {"/inferred/brands/status", "/inferred/logo-url", "/profile"}

\* The token each script holds when probing starts: the gateway and enhanced
\* mains return before probing when the token client fails; the health and
\* custom scripts read AUTH_TOKEN, which may be unset; quick has no token.
Tokens(s) ==
  CASE s \in {"gateway", "enhanced"} -> {"tok"}
    [] s \in {"health", "custom"}    -> {"", "tok"}
    [] s = "quick"                   -> {""}

VARIABLES
  script,        \* which script runs
  endpoint,      \* the endpoint under comparison
  auth_token,    \* self.auth_token
  num_requests,  \* --requests
  mpc,           \* position of the comparing coroutine
  pc,            \* pc[b]: position of batch b
  i,             \* i[b]: loop index of batch b
  client,        \* client[b]: "none" | "open" | "closed"
  headers,       \* headers[b]: header names sent with the requests of batch b
  inflight,      \* inflight[b]: numbers of the GETs awaiting their outcome
  sent,          \* sent[b]: GETs issued so far by batch b
  latencies,     \* latencies[b]: the series under construction
  warnings,      \* failures reported so far through the logger (or print)
  mlog,          \* mlog[b]: history of the measured probes <<outcome, returned>>
  batch_result,  \* batch_result[b]: <<>> until the batch returns, then <<its value>>
  result,        \* <<>> until the comparison ends, then <<its dict or printout>>
  \* ---- the drivers (main, run_comparison, run_all_tests)
  environment,   \* self.environment
  token_ok,      \* whether get_jwt_token() returns a token or raises
  dpc,           \* position of the driver
  next_ep,       \* index of the endpoint the driver loop is at
  results,       \* the results list of the driver
  probed,        \* the batches run so far: [endpoint, authorization]
  surfaced,      \* error reports made by the driver itself
  \* ---- statistics, printers and report generators on given series
  old_series,    \* latencies of the old side
  new_series,    \* latencies of the new side
  rpc,           \* position in the chain compare, print, save, report
  comparison,    \* <<>> or <<the dict compare_latencies returns>>
  printed,       \* <<>> or <<what print_results did>>
  csv_report,    \* <<>> or <<what create_csv_reports did>>
  excel_report,  \* <<>> or <<what create_excel_report did>>
  summaries,     \* <<>> or <<what the enhanced, quick, health and custom printers did>>
  \* ---- the statistics functions called on one list
  samples,       \* the list object handed to the functions
  samples_given, \* its content when the first call was made
  pctl,          \* the percentile asked for
  spc,           \* position in the sequence of calls
  pctl_out,      \* pctl_out[c]: <<>> or <<what copy c of _percentile returned>>
  stats_out      \* what the calls of calculate_stats returned, in order

vars == <<script, endpoint, auth_token, num_requests, mpc, pc, i, client,
          headers, inflight, sent, latencies, warnings, mlog, batch_result,
          result>>

dvars == <<environment, token_ok, dpc, next_ep, results, probed, surfaced>>
rvars == <<old_series, new_series, rpc, comparison, printed, csv_report,
           excel_report, summaries>>

svars == <<samples, samples_given, pctl, spc, pctl_out, stats_out>>
allvars == <<vars, dvars, rvars, svars>>

\* the scripts that carry a copy of _percentile
PercentileCopies == {"gateway", "quick", "health", "custom"}

\* no list is handed to the statistics functions
StatsIdle ==
  /\ samples = <<>>
  /\ samples_given = <<>>
  /\ pctl = 0
  /\ spc = "idle"
  /\ pctl_out = [c \in PercentileCopies |-> <<>>]
  /\ stats_out = <<>>

\* no driver is running: one comparison is run on its own
DriverIdle ==
  /\ environment = "dev"
  /\ token_ok = TRUE
  /\ dpc = "idle"
  /\ next_ep = 1
  /\ results = <<>>
  /\ probed = {}
  /\ surfaced = 0

Printers == {"enhanced", "quick", "custom"}

\* no series is given to the printers and report generators
ReportIdle ==
  /\ old_series = <<>>
  /\ new_series = <<>>
  /\ rpc = "idle"
  /\ comparison = <<>>
  /\ printed = <<>>
  /\ csv_report = <<>>
  /\ excel_report = <<>>
  /\ summaries = [p \in Printers |-> <<>>]

Init ==
  /\ script \in Scripts
  /\ endpoint \in test_endpoints(script)
  /\ auth_token \in Tokens(script)
  /\ num_requests \in 0..MaxRequests
  /\ mpc = "start"
  /\ pc = [b \in Batches |-> "idle"]
  /\ i = [b \in Batches |-> 0]
  /\ client = [b \in Batches |-> "none"]
  /\ headers = [b \in Batches |-> {}]
  /\ inflight = [b \in Batches |-> {}]
  /\ sent = [b \in Batches |-> 0]
  /\ latencies = [b \in Batches |-> <<>>]
  /\ warnings = 0
  /\ mlog = [b \in Batches |-> <<>>]
  /\ batch_result = [b \in Batches |-> <<>>]
  /\ result = <<>>
  /\ DriverIdle
  /\ ReportIdle
  /\ StatsIdle

\* ===================================================== gateway: the Sampler
\* variant: the server-error test written as status_code <= 500
measure_request_latency_le500(o) ==
  IF o.raised THEN None
  ELSE IF o.status <= ServerErrorFloor THEN Latency(o.elapsed)
  ELSE None

\* LatencyTester.measure_request_latency, as a function of what the GET did.
measure_request_latency(o) ==
  IF o.raised THEN None
  ELSE IF o.status < ServerErrorFloor THEN Latency(o.elapsed)
  ELSE None

\* ================================================= gateway: the BatchRunner
\* A task runs from one await that suspends it (a GET, a sleep) to the
\* next; pc[b] names the await at which the task of batch b is suspended.

\* asyncio.gather wraps both coroutines in tasks before either runs.
compare_latencies_gather ==
  /\ script = "gateway"
  /\ mpc = "start"
  /\ mpc' = "gathering"
  /\ pc' = [b \in Batches |-> "enter"]
  /\ UNCHANGED <<svars, dvars, rvars, script, endpoint, auth_token, num_requests, i, client,
                 headers, inflight, sent, latencies, warnings, mlog,
                 batch_result, result>>

\* first run of the task: headers = {"Authorization": ...}, the client is
\* opened, the first warm-up GET is issued and awaited
run_latency_test_enter(b) ==
  /\ script = "gateway"
  /\ pc[b] = "enter"
  /\ headers' = [headers EXCEPT ![b] = {"Authorization"}]
  /\ client' = [client EXCEPT ![b] = "open"]
  /\ i' = [i EXCEPT ![b] = 0]
  /\ sent' = [sent EXCEPT ![b] = @ + 1]
  /\ inflight' = [inflight EXCEPT ![b] = @ \cup {sent[b] + 1}]
  /\ pc' = [pc EXCEPT ![b] = "warm_wait"]
  /\ UNCHANGED <<svars, dvars, rvars, script, endpoint, auth_token, num_requests, mpc, latencies,
                 warnings, mlog, batch_result, result>>

\* warm-up: the outcome arrives, is classified (and logged when it is a
\* failure) and discarded; the task then sleeps 0.1 s
run_latency_test_warm_done(b) ==
  /\ script = "gateway"
  /\ pc[b] = "warm_wait"
  /\ \E o \in Outcomes :
       warnings' = IF measure_request_latency(o) = None THEN warnings + 1 ELSE warnings
  /\ inflight' = [inflight EXCEPT ![b] = @ \ {sent[b]}]
  /\ pc' = [pc EXCEPT ![b] = "warm_sleep"]
  /\ UNCHANGED <<svars, dvars, rvars, script, endpoint, auth_token, num_requests, mpc, i, client,
                 headers, sent, latencies, mlog, batch_result, result>>

\* variant: the series is an attribute of the tester (self.latencies = []),
\* one list for both tasks
run_latency_test_warm_sleep_shared_list(b) ==
  /\ script = "gateway"
  /\ pc[b] = "warm_sleep"
  /\ IF i[b] + 1 < WarmupRequests
       THEN /\ i' = [i EXCEPT ![b] = @ + 1]
            /\ sent' = [sent EXCEPT ![b] = @ + 1]
            /\ inflight' = [inflight EXCEPT ![b] = @ \cup {sent[b] + 1}]
            /\ pc' = [pc EXCEPT ![b] = "warm_wait"]
            /\ UNCHANGED <<latencies, client, batch_result>>
       ELSE /\ i' = [i EXCEPT ![b] = 0]
            /\ latencies' = [b2 \in Batches |-> <<>>]
            /\ IF num_requests > 0
                 THEN /\ sent' = [sent EXCEPT ![b] = @ + 1]
                      /\ inflight' = [inflight EXCEPT ![b] = @ \cup {sent[b] + 1}]
                      /\ pc' = [pc EXCEPT ![b] = "meas_wait"]
                      /\ UNCHANGED <<client, batch_result>>
                 ELSE /\ client' = [client EXCEPT ![b] = "closed"]
                      /\ batch_result' = [batch_result EXCEPT ![b] = << <<>> >>]
                      /\ pc' = [pc EXCEPT ![b] = "done"]
                      /\ UNCHANGED <<sent, inflight>>
  /\ UNCHANGED <<svars, dvars, rvars, script, endpoint, auth_token, num_requests, mpc, headers,
                 warnings, mlog, result>>

\* variant: the next warm-up probe is started as a task and not awaited
run_latency_test_warm_sleep_nowait(b) ==
  /\ script = "gateway"
  /\ pc[b] = "warm_sleep"
  /\ IF i[b] + 1 < WarmupRequests
       THEN /\ i' = [i EXCEPT ![b] = @ + 1]
            /\ sent' = [sent EXCEPT ![b] = @ + 1]
            /\ inflight' = [inflight EXCEPT ![b] = @ \cup {sent[b] + 1}]
            /\ UNCHANGED <<pc, latencies, client, batch_result>>
       ELSE /\ i' = [i EXCEPT ![b] = 0]
            /\ latencies' = [latencies EXCEPT ![b] = <<>>]
            /\ IF num_requests > 0
                 THEN /\ sent' = [sent EXCEPT ![b] = @ + 1]
                      /\ inflight' = [inflight EXCEPT ![b] = @ \cup {sent[b] + 1}]
                      /\ pc' = [pc EXCEPT ![b] = "meas_wait"]
                      /\ UNCHANGED <<client, batch_result>>
                 ELSE /\ client' = [client EXCEPT ![b] = "closed"]
                      /\ batch_result' = [batch_result EXCEPT ![b] = << <<>> >>]
                      /\ pc' = [pc EXCEPT ![b] = "done"]
                      /\ UNCHANGED <<sent, inflight>>
  /\ UNCHANGED <<svars, dvars, rvars, script, endpoint, auth_token, num_requests, mpc, headers,
                 warnings, mlog, result>>

\* the sleep after a warm-up ends: the next warm-up GET is issued and
\* awaited or, after the third, latencies = [] and the measurement loop
\* starts with its first GET (with num_requests = 0 the loop body never
\* runs: the client is closed and [] is returned)
run_latency_test_warm_sleep(b) ==
  /\ script = "gateway"
  /\ pc[b] = "warm_sleep"
  /\ IF i[b] + 1 < WarmupRequests
       THEN /\ i' = [i EXCEPT ![b] = @ + 1]
            /\ sent' = [sent EXCEPT ![b] = @ + 1]
            /\ inflight' = [inflight EXCEPT ![b] = @ \cup {sent[b] + 1}]
            /\ pc' = [pc EXCEPT ![b] = "warm_wait"]
            /\ UNCHANGED <<latencies, client, batch_result>>
       ELSE /\ i' = [i EXCEPT ![b] = 0]
            /\ latencies' = [latencies EXCEPT ![b] = <<>>]
            /\ IF num_requests > 0
                 THEN /\ sent' = [sent EXCEPT ![b] = @ + 1]
                      /\ inflight' = [inflight EXCEPT ![b] = @ \cup {sent[b] + 1}]
                      /\ pc' = [pc EXCEPT ![b] = "meas_wait"]
                      /\ UNCHANGED <<client, batch_result>>
                 ELSE /\ client' = [client EXCEPT ![b] = "closed"]
                      /\ batch_result' = [batch_result EXCEPT ![b] = << <<>> >>]
                      /\ pc' = [pc EXCEPT ![b] = "done"]
                      /\ UNCHANGED <<sent, inflight>>
  /\ UNCHANGED <<svars, dvars, rvars, script, endpoint, auth_token, num_requests, mpc, headers,
                 warnings, mlog, result>>

\* variant: the client is created without async with and never closed
run_latency_test_meas_done_client_left_open(b) ==
  /\ script = "gateway"
  /\ pc[b] = "meas_wait"
  /\ \E o \in Outcomes :
       LET latency == measure_request_latency(o)
           series == IF latency # None THEN Append(latencies[b], latency.ms)
                     ELSE latencies[b]
       IN /\ latencies' = [latencies EXCEPT ![b] = series]
          /\ warnings' = IF latency = None THEN warnings + 1 ELSE warnings
          /\ mlog' = [mlog EXCEPT ![b] = Append(@, <<o, latency>>)]
          /\ IF i[b] < num_requests - 1
               THEN /\ pc' = [pc EXCEPT ![b] = "meas_sleep"]
                    /\ UNCHANGED <<i, batch_result>>
               ELSE /\ i' = [i EXCEPT ![b] = @ + 1]
                    /\ batch_result' = [batch_result EXCEPT ![b] = <<series>>]
                    /\ pc' = [pc EXCEPT ![b] = "done"]
  /\ inflight' = [inflight EXCEPT ![b] = @ \ {sent[b]}]
  /\ UNCHANGED <<svars, dvars, rvars, script, endpoint, auth_token, num_requests, mpc, headers,
                 sent, result, client>>

\* variant: latencies.insert(0, latency) in place of append
run_latency_test_meas_done_prepend(b) ==
  /\ script = "gateway"
  /\ pc[b] = "meas_wait"
  /\ \E o \in Outcomes :
       LET latency == measure_request_latency(o)
           series == IF latency # None THEN <<latency.ms>> \o latencies[b]
                     ELSE latencies[b]
       IN /\ latencies' = [latencies EXCEPT ![b] = series]
          /\ warnings' = IF latency = None THEN warnings + 1 ELSE warnings
          /\ mlog' = [mlog EXCEPT ![b] = Append(@, <<o, latency>>)]
          /\ IF i[b] < num_requests - 1
               THEN /\ pc' = [pc EXCEPT ![b] = "meas_sleep"]
                    /\ UNCHANGED <<i, client, batch_result>>
               ELSE /\ i' = [i EXCEPT ![b] = @ + 1]
                    /\ client' = [client EXCEPT ![b] = "closed"]
                    /\ batch_result' = [batch_result EXCEPT ![b] = <<series>>]
                    /\ pc' = [pc EXCEPT ![b] = "done"]
  /\ inflight' = [inflight EXCEPT ![b] = @ \ {sent[b]}]
  /\ UNCHANGED <<svars, dvars, rvars, script, endpoint, auth_token, num_requests, mpc, headers,
                 sent, result>>

\* measurement: the outcome of the awaited probe arrives; if latency is not
\* None it is appended; then either the task sleeps 0.05 s or, after the
\* last probe, the client is closed and latencies is returned
run_latency_test_meas_done(b) ==
  /\ script = "gateway"
  /\ pc[b] = "meas_wait"
  /\ \E o \in Outcomes :
       LET latency == measure_request_latency(o)
           series == IF latency # None THEN Append(latencies[b], latency.ms)
                     ELSE latencies[b]
       IN /\ latencies' = [latencies EXCEPT ![b] = series]
          /\ warnings' = IF latency = None THEN warnings + 1 ELSE warnings
          /\ mlog' = [mlog EXCEPT ![b] = Append(@, <<o, latency>>)]
          /\ IF i[b] < num_requests - 1
               THEN /\ pc' = [pc EXCEPT ![b] = "meas_sleep"]
                    /\ UNCHANGED <<i, client, batch_result>>
               ELSE /\ i' = [i EXCEPT ![b] = @ + 1]
                    /\ client' = [client EXCEPT ![b] = "closed"]
                    /\ batch_result' = [batch_result EXCEPT ![b] = <<series>>]
                    /\ pc' = [pc EXCEPT ![b] = "done"]
  /\ inflight' = [inflight EXCEPT ![b] = @ \ {sent[b]}]
  /\ UNCHANGED <<svars, dvars, rvars, script, endpoint, auth_token, num_requests, mpc, headers,
                 sent, result>>

\* variant: a probe that failed is issued again for the same slot
run_latency_test_meas_sleep_retry(b) ==
  /\ script = "gateway"
  /\ pc[b] = "meas_sleep"
  /\ i' = [i EXCEPT ![b] = IF mlog[b][Len(mlog[b])][2] = None THEN @ ELSE @ + 1]
  /\ sent' = [sent EXCEPT ![b] = @ + 1]
  /\ inflight' = [inflight EXCEPT ![b] = @ \cup {sent[b] + 1}]
  /\ pc' = [pc EXCEPT ![b] = "meas_wait"]
  /\ UNCHANGED <<svars, dvars, rvars, script, endpoint, auth_token, num_requests, mpc, client,
                 headers, latencies, warnings, mlog, batch_result, result>>

\* the sleep between two measured probes ends: the next GET is issued and
\* awaited
run_latency_test_meas_sleep(b) ==
  /\ script = "gateway"
  /\ pc[b] = "meas_sleep"
  /\ i' = [i EXCEPT ![b] = @ + 1]
  /\ sent' = [sent EXCEPT ![b] = @ + 1]
  /\ inflight' = [inflight EXCEPT ![b] = @ \cup {sent[b] + 1}]
  /\ pc' = [pc EXCEPT ![b] = "meas_wait"]
  /\ UNCHANGED <<svars, dvars, rvars, script, endpoint, auth_token, num_requests, mpc, client,
                 headers, latencies, warnings, mlog, batch_result, result>>

\* ================================================== exact rational numbers
\* Latencies are whole milliseconds here; statistics of them are fractions
\* <<numerator, denominator>> in lowest terms with a positive denominator.
RECURSIVE GCD(_, _)
GCD(a, b) == IF b = 0 THEN a ELSE GCD(b, a % b)
Abs(a) == IF a < 0 THEN -a ELSE a
RNorm(n, d) ==
  LET g == GCD(Abs(n), Abs(d))
      sgn == IF d < 0 THEN -1 ELSE 1
  IN <<sgn * (n \div g), sgn * (d \div g)>>
R(n) == <<n, 1>>
RAdd(x, y) == RNorm(x[1] * y[2] + y[1] * x[2], x[2] * y[2])
RSub(x, y) == RNorm(x[1] * y[2] - y[1] * x[2], x[2] * y[2])
RMul(x, y) == RNorm(x[1] * y[1], x[2] * y[2])
RLess(x, y) == x[1] * y[2] < y[1] * x[2]
RFloor(x) == x[1] \div x[2]

\* ================================================ gateway: StatisticsEngine
RECURSIVE Sum(_)
Sum(l) == IF l = <<>> THEN 0 ELSE Head(l) + Sum(Tail(l))
RECURSIVE SumSq(_)
SumSq(l) == IF l = <<>> THEN 0 ELSE Head(l) * Head(l) + SumSq(Tail(l))
RECURSIVE Insert(_, _)
Insert(x, l) ==
  IF l = <<>> THEN <<x>>
  ELSE IF x <= Head(l) THEN <<x>> \o l
  ELSE <<Head(l)>> \o Insert(x, Tail(l))
\* sorted(data): a new ascending list
RECURSIVE sorted(_)
sorted(l) == IF l = <<>> THEN <<>> ELSE Insert(Head(l), sorted(Tail(l)))
Min2(a, b) == IF a < b THEN a ELSE b

\* statistics.mean, statistics.median, min, max, statistics.stdev
mean(l) == RNorm(Sum(l), Len(l))
median(l) ==
  LET s == sorted(l)
      n == Len(l)
  IN IF n % 2 = 1 THEN R(s[(n + 1) \div 2])
     ELSE RNorm(s[n \div 2] + s[n \div 2 + 1], 2)
min(l) == sorted(l)[1]
max(l) == sorted(l)[Len(l)]
\* the sample standard deviation is the square root of this fraction
stdev(l) ==
  LET n == Len(l)
  IN [sqrt_of |-> RNorm(n * SumSq(l) - Sum(l) * Sum(l), n * (n - 1))]

\* variant: the two weights are exchanged
_percentile_weights_swapped(data, percentile) ==
  IF data = <<>> THEN R(0)
  ELSE
    LET sorted_data == sorted(data)
        index == RNorm(percentile * (Len(sorted_data) - 1), 100)
        lower_index == RFloor(index)
        upper_index == Min2(lower_index + 1, Len(sorted_data) - 1)
        weight == RSub(index, R(lower_index))
    IN RAdd(RMul(R(sorted_data[lower_index + 1]), weight),
            RMul(R(sorted_data[upper_index + 1]), RSub(R(1), weight)))

\* LatencyTester._percentile (indices are 0-based in the source)
_percentile(data, percentile) ==
  IF data = <<>> THEN R(0)
  ELSE
    LET sorted_data == sorted(data)
        index == RNorm(percentile * (Len(sorted_data) - 1), 100)
        lower_index == RFloor(index)
        upper_index == Min2(lower_index + 1, Len(sorted_data) - 1)
        weight == RSub(index, R(lower_index))
    IN RAdd(RMul(R(sorted_data[lower_index + 1]), RSub(R(1), weight)),
            RMul(R(sorted_data[upper_index + 1]), weight))

\* variant: the sample standard deviation is asked of a single value too,
\* where statistics.stdev has no answer
calculate_stats_stdev_unguarded(l) ==
  IF l = <<>> THEN [error |-> "No successful requests"]
  ELSE [count |-> Len(l),
        mean |-> mean(l),
        median |-> median(l),
        min |-> min(l),
        max |-> max(l),
        std_dev |-> IF Len(l) > 1 THEN stdev(l) ELSE [raised |-> "StatisticsError"],
        p95 |-> _percentile(l, 95),
        p99 |-> _percentile(l, 99)]

\* variant: an empty series summarised as zeros
calculate_stats_zeros(l) ==
  IF l = <<>>
  THEN [count |-> 0, mean |-> R(0), median |-> R(0), min |-> 0, max |-> 0,
        std_dev |-> [sqrt_of |-> R(0)], p95 |-> R(0), p99 |-> R(0)]
  ELSE [count |-> Len(l),
        mean |-> mean(l),
        median |-> median(l),
        min |-> min(l),
        max |-> max(l),
        std_dev |-> IF Len(l) > 1 THEN stdev(l) ELSE [sqrt_of |-> R(0)],
        p95 |-> _percentile(l, 95),
        p99 |-> _percentile(l, 99)]

\* calculate_stats, the closure of compare_latencies
calculate_stats(l) ==
  IF l = <<>> THEN [error |-> "No successful requests"]
  ELSE [count |-> Len(l),
        mean |-> mean(l),
        median |-> median(l),
        min |-> min(l),
        max |-> max(l),
        std_dev |-> IF Len(l) > 1 THEN stdev(l) ELSE [sqrt_of |-> R(0)],
        p95 |-> _percentile(l, 95),
        p99 |-> _percentile(l, 99)]

EmptyDict == [k \in {} |-> 0]

\* additional_latency: Dict[str, float] = {} unless both sides have data
additional_latency_ms(old_stats, new_stats) ==
  IF "error" \notin DOMAIN old_stats /\ "error" \notin DOMAIN new_stats
  THEN [mean |-> RSub(new_stats.mean, old_stats.mean),
        median |-> RSub(new_stats.median, old_stats.median),
        p95 |-> RSub(new_stats.p95, old_stats.p95),
        p99 |-> RSub(new_stats.p99, old_stats.p99)]
  ELSE EmptyDict

\* ==================================================== gateway: Comparator
\* variant: the statistics are taken as soon as one task has returned
compare_latencies_return_first_completed ==
  /\ script = "gateway"
  /\ mpc = "gathering"
  /\ \E b \in Batches : pc[b] = "done"
  /\ LET old_stats == calculate_stats(latencies["old"])
         new_stats == calculate_stats(latencies["new"])
     IN result' = << [endpoint |-> endpoint,
                      old_stats |-> old_stats,
                      new_stats |-> new_stats,
                      additional_latency_ms |-> additional_latency_ms(old_stats, new_stats),
                      raw_data |-> [old_latencies |-> latencies["old"],
                                    new_latencies |-> latencies["new"]]] >>
  /\ mpc' = "returned"
  /\ UNCHANGED <<svars, dvars, rvars, script, endpoint, auth_token, num_requests, pc, i, client, headers,
                 inflight, sent, latencies, warnings, mlog, batch_result>>

\* await asyncio.gather(...) resumes once both tasks have returned; then
\* the statistics, the delta and the returned dict
compare_latencies_return ==
  /\ script = "gateway"
  /\ mpc = "gathering"
  /\ \A b \in Batches : pc[b] = "done"
  /\ LET old_latencies == batch_result["old"][1]
         new_latencies == batch_result["new"][1]
         old_stats == calculate_stats(old_latencies)
         new_stats == calculate_stats(new_latencies)
     IN result' = << [endpoint |-> endpoint,
                   old_stats |-> old_stats,
                   new_stats |-> new_stats,
                   additional_latency_ms |-> additional_latency_ms(old_stats, new_stats),
                   raw_data |-> [old_latencies |-> old_latencies,
                                 new_latencies |-> new_latencies]] >>
  /\ mpc' = "returned"
  /\ UNCHANGED <<svars, dvars, rvars, script, endpoint, auth_token, num_requests, pc, i, client, headers,
                 inflight, sent, latencies, warnings, mlog, batch_result>>

\* ============================================================== enhanced
\* what the measurement loop of test_endpoint appends for one GET
enhanced_measure(o) ==
  IF o.raised THEN None ELSE Latency(o.elapsed)

\* old_result = await self.test_endpoint(old_url, ...), then the same for
\* new_url: headers, the empty lists and the client of the called batch
enhanced_run_comparison_call(b) ==
  /\ script = "enhanced"
  /\ pc[b] = "idle"
  /\ \/ b = "old" /\ mpc = "start"
     \/ b = "new" /\ pc["old"] = "done"
  /\ headers' = [headers EXCEPT ![b] =
                   IF auth_required(endpoint) THEN {"Authorization"} ELSE {}]
  /\ latencies' = [latencies EXCEPT ![b] = <<>>]
  /\ client' = [client EXCEPT ![b] = "open"]
  /\ pc' = [pc EXCEPT ![b] = "warm"]
  /\ mpc' = "running"
  /\ UNCHANGED <<svars, dvars, rvars, script, endpoint, auth_token, num_requests, i, inflight, sent,
                 warnings, mlog, batch_result, result>>

\* the warm-up GET: an exception returns the error dict at once
enhanced_test_endpoint_warmup(b) ==
  /\ script = "enhanced"
  /\ pc[b] = "warm"
  /\ sent' = [sent EXCEPT ![b] = @ + 1]
  /\ \E o \in Outcomes :
       IF o.raised
         THEN /\ warnings' = warnings + 1
              /\ batch_result' = [batch_result EXCEPT ![b] =
                    << [name |-> endpoint, error |-> "Warmup failed",
                        latencies |-> <<>>] >>]
              /\ client' = [client EXCEPT ![b] = "closed"]
              /\ pc' = [pc EXCEPT ![b] = "done"]
         ELSE /\ pc' = [pc EXCEPT ![b] = "meas"]
              /\ UNCHANGED <<warnings, batch_result, client>>
  /\ i' = [i EXCEPT ![b] = 0]
  /\ UNCHANGED <<svars, dvars, rvars, script, endpoint, auth_token, num_requests, mpc, headers,
                 inflight, latencies, mlog, result>>

\* one iteration of for i in range(num_requests), or the return after it
enhanced_test_endpoint_loop(b) ==
  /\ script = "enhanced"
  /\ pc[b] = "meas"
  /\ IF i[b] < num_requests
       THEN /\ sent' = [sent EXCEPT ![b] = @ + 1]
            /\ \E o \in Outcomes :
                 LET latency == enhanced_measure(o) IN
                 /\ latencies' = [latencies EXCEPT ![b] =
                                    IF latency # None THEN Append(@, latency.ms) ELSE @]
                 /\ warnings' = IF latency = None THEN warnings + 1 ELSE warnings
                 /\ mlog' = [mlog EXCEPT ![b] = Append(@, <<o, latency>>)]
            /\ i' = [i EXCEPT ![b] = @ + 1]
            /\ UNCHANGED <<pc, client, batch_result>>
       ELSE /\ batch_result' = [batch_result EXCEPT ![b] =
                  << [name |-> endpoint, path |-> endpoint,
                      auth_required |-> auth_required(endpoint),
                      latencies |-> latencies[b]] >>]
            /\ client' = [client EXCEPT ![b] = "closed"]
            /\ pc' = [pc EXCEPT ![b] = "done"]
            /\ UNCHANGED <<sent, latencies, warnings, mlog, i>>
  /\ UNCHANGED <<svars, dvars, rvars, script, endpoint, auth_token, num_requests, mpc, headers,
                 inflight, result>>

RDiv(x, y) == RNorm(x[1] * y[2], x[2] * y[1])

\* EnhancedLatencyTest.compare_results (expected_size, processing and the
\* response sizes are carried through unchanged and are left out)
compare_results(old_result, new_result) ==
  IF "error" \in DOMAIN old_result \/ "error" \in DOMAIN new_result
  THEN [name |-> old_result.name,
        old_error |-> IF "error" \in DOMAIN old_result THEN old_result.error ELSE "None",
        new_error |-> IF "error" \in DOMAIN new_result THEN new_result.error ELSE "None"]
  ELSE IF old_result.latencies = <<>> \/ new_result.latencies = <<>>
  THEN [name |-> old_result.name, error |-> "No successful requests"]
  ELSE
    LET old_avg == mean(old_result.latencies)
        new_avg == mean(new_result.latencies)
        additional_latency == RSub(new_avg, old_avg)
    IN [name |-> old_result.name,
        path |-> old_result.path,
        auth_required |-> old_result.auth_required,
        old_avg |-> old_avg,
        new_avg |-> new_avg,
        additional_latency |-> additional_latency,
        percent_increase |-> IF RLess(R(0), old_avg)
                               THEN RMul(RDiv(additional_latency, old_avg), R(100))
                               ELSE R(0),
        old_count |-> Len(old_result.latencies),
        new_count |-> Len(new_result.latencies)]

\* comparison = self.compare_results(old_result, new_result)
enhanced_run_comparison_compare ==
  /\ script = "enhanced"
  /\ mpc = "running"
  /\ \A b \in Batches : pc[b] = "done"
  /\ result' = << compare_results(batch_result["old"][1], batch_result["new"][1]) >>
  /\ mpc' = "returned"
  /\ UNCHANGED <<svars, dvars, rvars, script, endpoint, auth_token, num_requests, pc, i, client, headers,
                 inflight, sent, latencies, warnings, mlog, batch_result>>

\* ================================================================= quick
\* what the measurement loop of measure_latency appends for one GET
quick_measure(o) ==
  IF o.raised THEN None
  ELSE IF o.status < ServerErrorFloor THEN Latency(o.elapsed)
  ELSE None

\* old_latencies = await self.measure_latency(old_url, ...), then new_url
quick_compare_environments_call(b) ==
  /\ script = "quick"
  /\ pc[b] = "idle"
  /\ \/ b = "old" /\ mpc = "start"
     \/ b = "new" /\ pc["old"] = "done"
  /\ latencies' = [latencies EXCEPT ![b] = <<>>]
  /\ client' = [client EXCEPT ![b] = "open"]
  /\ pc' = [pc EXCEPT ![b] = "warm"]
  /\ mpc' = "running"
  /\ UNCHANGED <<svars, dvars, rvars, script, endpoint, auth_token, num_requests, i, headers, inflight,
                 sent, warnings, mlog, batch_result, result>>

\* the warm-up GET: an exception returns [] at once
quick_measure_latency_warmup(b) ==
  /\ script = "quick"
  /\ pc[b] = "warm"
  /\ sent' = [sent EXCEPT ![b] = @ + 1]
  /\ \E o \in Outcomes :
       IF o.raised
         THEN /\ warnings' = warnings + 1
              /\ batch_result' = [batch_result EXCEPT ![b] = << <<>> >>]
              /\ client' = [client EXCEPT ![b] = "closed"]
              /\ pc' = [pc EXCEPT ![b] = "done"]
         ELSE /\ pc' = [pc EXCEPT ![b] = "meas"]
              /\ UNCHANGED <<warnings, batch_result, client>>
  /\ i' = [i EXCEPT ![b] = 0]
  /\ UNCHANGED <<svars, dvars, rvars, script, endpoint, auth_token, num_requests, mpc, headers,
                 inflight, latencies, mlog, result>>

\* one iteration of for i in range(num_requests), or the return after it
quick_measure_latency_loop(b) ==
  /\ script = "quick"
  /\ pc[b] = "meas"
  /\ IF i[b] < num_requests
       THEN /\ sent' = [sent EXCEPT ![b] = @ + 1]
            /\ \E o \in Outcomes :
                 LET latency == quick_measure(o) IN
                 /\ latencies' = [latencies EXCEPT ![b] =
                                    IF latency # None THEN Append(@, latency.ms) ELSE @]
                 /\ warnings' = IF latency = None THEN warnings + 1 ELSE warnings
                 /\ mlog' = [mlog EXCEPT ![b] = Append(@, <<o, latency>>)]
            /\ i' = [i EXCEPT ![b] = @ + 1]
            /\ UNCHANGED <<pc, client, batch_result>>
       ELSE /\ batch_result' = [batch_result EXCEPT ![b] = <<latencies[b]>>]
            /\ client' = [client EXCEPT ![b] = "closed"]
            /\ pc' = [pc EXCEPT ![b] = "done"]
            /\ UNCHANGED <<sent, latencies, warnings, mlog, i>>
  /\ UNCHANGED <<svars, dvars, rvars, script, endpoint, auth_token, num_requests, mpc, headers,
                 inflight, result>>

\* the performance assessment printed by compare_environments
quick_assessment(additional_latency) ==
  IF RLess(additional_latency, R(5)) THEN "Excellent"
  ELSE IF RLess(additional_latency, R(15)) THEN "Good"
  ELSE IF RLess(additional_latency, R(30)) THEN "Fair"
  ELSE "Concerning"

\* what compare_environments prints from the two series
quick_compare(old_latencies, new_latencies) ==
  IF old_latencies = <<>> /\ new_latencies = <<>>
  THEN [error |-> "No successful requests to either endpoint"]
  ELSE IF old_latencies = <<>>
  THEN [error |-> "No successful requests to old endpoint"]
  ELSE IF new_latencies = <<>>
  THEN [error |-> "No successful requests to new endpoint"]
  ELSE IF mean(old_latencies) = R(0)
  THEN [raised |-> "ZeroDivisionError"]
  ELSE
    LET old_avg == mean(old_latencies)
        new_avg == mean(new_latencies)
        additional_latency == RSub(new_avg, old_avg)
    IN [old_avg |-> old_avg,
        new_avg |-> new_avg,
        additional_latency |-> additional_latency,
        percent_increase |-> RMul(RDiv(additional_latency, old_avg), R(100)),
        assessment |-> quick_assessment(additional_latency)]

quick_compare_environments_results ==
  /\ script = "quick"
  /\ mpc = "running"
  /\ \A b \in Batches : pc[b] = "done"
  /\ result' = << quick_compare(batch_result["old"][1], batch_result["new"][1]) >>
  /\ mpc' = "returned"
  /\ UNCHANGED <<svars, dvars, rvars, script, endpoint, auth_token, num_requests, pc, i, client, headers,
                 inflight, sent, latencies, warnings, mlog, batch_result>>

\* ========================================================== health check
\* SimpleHealthCheckTest.measure_latency, as a function of what the GET did
health_measure_latency(o) ==
  IF o.raised THEN None
  ELSE IF o.status >= HealthErrorFloor THEN None
  ELSE Latency(o.elapsed)

\* headers of measure_latency in the health check and custom scripts
token_headers(token) == IF token # "" THEN {"Authorization"} ELSE {}

\* run_test: the connectivity test, old endpoint first, results only printed
health_run_test_connectivity(b) ==
  /\ script = "health"
  /\ pc[b] = "idle"
  /\ \/ b = "old" /\ mpc = "start"
     \/ b = "new" /\ pc["old"] = "tested"
  /\ headers' = [headers EXCEPT ![b] = token_headers(auth_token)]
  /\ sent' = [sent EXCEPT ![b] = @ + 1]
  /\ client' = [client EXCEPT ![b] = "closed"]
  /\ \E o \in Outcomes :
       warnings' = IF health_measure_latency(o) = None THEN warnings + 1 ELSE warnings
  /\ pc' = IF b = "old" THEN [pc EXCEPT ![b] = "tested"]
           ELSE [c \in Batches |-> "meas"]
  /\ mpc' = "running"
  /\ UNCHANGED <<svars, dvars, rvars, script, endpoint, auth_token, num_requests, i, inflight,
                 latencies, mlog, batch_result, result>>

\* run_test: one iteration of a measurement loop (old loop first), or its end
health_run_test_loop(b) ==
  /\ script = "health"
  /\ pc[b] = "meas"
  /\ b = "new" => pc["old"] = "done"
  /\ IF i[b] < num_requests
       THEN /\ sent' = [sent EXCEPT ![b] = @ + 1]
            /\ \E o \in Outcomes :
                 LET latency == health_measure_latency(o) IN
                 /\ latencies' = [latencies EXCEPT ![b] =
                                    IF latency # None THEN Append(@, latency.ms) ELSE @]
                 /\ warnings' = IF latency = None THEN warnings + 1 ELSE warnings
                 /\ mlog' = [mlog EXCEPT ![b] = Append(@, <<o, latency>>)]
            /\ i' = [i EXCEPT ![b] = @ + 1]
            /\ UNCHANGED <<pc, batch_result>>
       ELSE /\ batch_result' = [batch_result EXCEPT ![b] = <<latencies[b]>>]
            /\ pc' = [pc EXCEPT ![b] = "done"]
            /\ UNCHANGED <<sent, latencies, warnings, mlog, i>>
  /\ UNCHANGED <<svars, dvars, rvars, script, endpoint, auth_token, num_requests, mpc, client, headers,
                 inflight, result>>

\* the four statistics of analyze_results / _analyze_single_result
table_stats(l) ==
  [mean |-> mean(l), median |-> median(l),
   p95 |-> _percentile(l, 95), p99 |-> _percentile(l, 99)]

\* what analyze_results prints from the two series
analyze(old_latencies, new_latencies) ==
  IF old_latencies = <<>> \/ new_latencies = <<>>
  THEN [error |-> "No successful requests to analyze"]
  ELSE [old_stats |-> table_stats(old_latencies),
        new_stats |-> table_stats(new_latencies),
        old_count |-> Len(old_latencies),
        new_count |-> Len(new_latencies),
        mean_diff |-> RSub(mean(new_latencies), mean(old_latencies))]

health_analyze_results ==
  /\ script = "health"
  /\ mpc = "running"
  /\ \A b \in Batches : pc[b] = "done"
  /\ result' = << analyze(batch_result["old"][1], batch_result["new"][1]) >>
  /\ mpc' = "returned"
  /\ UNCHANGED <<svars, dvars, rvars, script, endpoint, auth_token, num_requests, pc, i, client, headers,
                 inflight, sent, latencies, warnings, mlog, batch_result>>

\* ======================================================= custom endpoints
\* CustomEndpointTest.measure_latency, as a function of what the GET did
custom_measure_latency(o) ==
  IF o.raised THEN None ELSE Latency(o.elapsed)

\* test_endpoint: one iteration of a measurement loop (old loop first), or
\* its end
custom_test_endpoint_loop(b) ==
  /\ script = "custom"
  /\ pc[b] \in {"idle", "meas"}
  /\ b = "new" => pc["old"] = "done"
  /\ IF i[b] < num_requests
       THEN /\ headers' = [headers EXCEPT ![b] = token_headers(auth_token)]
            /\ sent' = [sent EXCEPT ![b] = @ + 1]
            /\ client' = [client EXCEPT ![b] = "closed"]
            /\ \E o \in Outcomes :
                 LET latency == custom_measure_latency(o) IN
                 /\ latencies' = [latencies EXCEPT ![b] =
                                    IF latency # None THEN Append(@, latency.ms) ELSE @]
                 /\ mlog' = [mlog EXCEPT ![b] = Append(@, <<o, latency>>)]
            /\ i' = [i EXCEPT ![b] = @ + 1]
            /\ pc' = [pc EXCEPT ![b] = "meas"]
            /\ UNCHANGED batch_result
       ELSE /\ batch_result' = [batch_result EXCEPT ![b] = <<latencies[b]>>]
            /\ pc' = [pc EXCEPT ![b] = "done"]
            /\ UNCHANGED <<headers, sent, client, latencies, mlog, i>>
  /\ mpc' = "running"
  /\ UNCHANGED <<svars, dvars, rvars, script, endpoint, auth_token, num_requests, inflight, warnings,
                 result>>

custom_analyze_results ==
  /\ script = "custom"
  /\ mpc = "running"
  /\ \A b \in Batches : pc[b] = "done"
  /\ result' = << analyze(batch_result["old"][1], batch_result["new"][1]) >>
  /\ mpc' = "returned"
  /\ UNCHANGED <<svars, dvars, rvars, script, endpoint, auth_token, num_requests, pc, i, client, headers,
                 inflight, sent, latencies, warnings, mlog, batch_result>>

Next ==
  \/ compare_latencies_gather
  \/ \E b \in Batches : run_latency_test_enter(b)
  \/ \E b \in Batches : run_latency_test_warm_done(b)
  \/ \E b \in Batches : run_latency_test_warm_sleep(b)
  \/ \E b \in Batches : run_latency_test_meas_done(b)
  \/ \E b \in Batches : run_latency_test_meas_sleep(b)
  \/ compare_latencies_return
  \/ \E b \in Batches : enhanced_run_comparison_call(b)
  \/ \E b \in Batches : enhanced_test_endpoint_warmup(b)
  \/ \E b \in Batches : enhanced_test_endpoint_loop(b)
  \/ enhanced_run_comparison_compare
  \/ \E b \in Batches : quick_compare_environments_call(b)
  \/ \E b \in Batches : quick_measure_latency_warmup(b)
  \/ \E b \in Batches : quick_measure_latency_loop(b)
  \/ quick_compare_environments_results
  \/ \E b \in Batches : health_run_test_connectivity(b)
  \/ \E b \in Batches : health_run_test_loop(b)
  \/ health_analyze_results
  \/ \E b \in Batches : custom_test_endpoint_loop(b)
  \/ custom_analyze_results

Spec == Init /\ [][Next]_vars

\* =================================== gateway: the returned dict, the printer
\* the dict compare_latencies returns for two series (old_url and new_url,
\* fixed by the environment, are left out)
compare_latencies_result(ep, old_latencies, new_latencies) ==
  LET old_stats == calculate_stats(old_latencies)
      new_stats == calculate_stats(new_latencies)
  IN [endpoint |-> ep,
      old_stats |-> old_stats,
      new_stats |-> new_stats,
      additional_latency_ms |-> additional_latency_ms(old_stats, new_stats),
      raw_data |-> [old_latencies |-> old_latencies,
                    new_latencies |-> new_latencies]]

Metrics == {"mean", "median", "p95", "p99"}

\* variant: the percentage is taken against the new value
print_results_row_of_new(old_val, new_val, additional_val) ==
  [old |-> old_val, new |-> new_val, additional |-> additional_val,
   percent_increase |-> IF RLess(R(0), old_val)
                          THEN RMul(RDiv(additional_val, new_val), R(100))
                          ELSE R(0)]

\* one line of the table of print_results
print_results_row(old_val, new_val, additional_val) ==
  [old |-> old_val, new |-> new_val, additional |-> additional_val,
   percent_increase |-> IF RLess(R(0), old_val)
                          THEN RMul(RDiv(additional_val, old_val), R(100))
                          ELSE R(0)]

\* the body of the loop of print_results for one entry: the error line, or
\* the table and the summary line; "raised" names the exception that ends it
print_results_entry(r) ==
  IF "old_stats" \notin DOMAIN r THEN [raised |-> "KeyError"]
  ELSE IF "error" \in DOMAIN r.old_stats \/ "error" \in DOMAIN r.new_stats
  THEN [error_line |-> TRUE]
  ELSE
    LET old_stats == r.old_stats
        new_stats == r.new_stats
        additional == r.additional_latency_ms
        table == [m \in Metrics |->
                    print_results_row(old_stats[m], new_stats[m], additional[m])]
        avg_additional == additional.mean
    IN IF RLess(R(0), avg_additional)
       THEN IF old_stats.mean = R(0)
            THEN [table |-> table, raised |-> "ZeroDivisionError"]
            ELSE [table |-> table,
                  summary |-> [additional |-> avg_additional,
                               percent |-> RMul(RDiv(avg_additional, old_stats.mean),
                                                R(100))]]
       ELSE [table |-> table, summary |-> [difference |-> avg_additional]]

\* print_results: the entries are printed in order until one raises
RECURSIVE print_results(_)
print_results(rs) ==
  IF rs = <<>> THEN <<>>
  ELSE LET first == print_results_entry(Head(rs))
       IN IF "raised" \in DOMAIN first THEN <<first>>
          ELSE <<first>> \o print_results(Tail(rs))

\* ======================================================= report generators
Get(d, key, default) == IF key \in DOMAIN d THEN d[key] ELSE default

\* result["endpoint"].split("/")[-1]
last_segment(ep) ==
  CASE ep = "/health-check"           -> "health-check"
    [] ep = "/inferred/brands/status" -> "status"
    [] ep = "/inferred/brands"        -> "brands"
    [] ep = "/inferred/logo-url"      -> "logo-url"
    [] ep = "/profile"                -> "profile"
    [] OTHER                          -> "unknown"

\* the rows both generators fall back to when the file holds no results
sample_results ==
  << [environment |-> "dev", old_avg_ms |-> <<2063, 10>>, new_avg_ms |-> <<205, 1>>,
      additional_latency_ms |-> <<-6, 5>>, percent_increase |-> <<-3, 5>>,
      old_p95_ms |-> <<1039, 5>>, new_p95_ms |-> <<1046, 5>>,
      requests_tested |-> 15, status |-> "Excellent",
      endpoint_tested |-> "/health-check"],
     [environment |-> "test", old_avg_ms |-> <<206, 1>>, new_avg_ms |-> <<2149, 10>>,
      additional_latency_ms |-> <<44, 5>>, percent_increase |-> <<43, 10>>,
      old_p95_ms |-> <<2089, 10>>, new_p95_ms |-> <<2177, 10>>,
      requests_tested |-> 15, status |-> "Good",
      endpoint_tested |-> "/health-check"],
     [environment |-> "prod", old_avg_ms |-> <<1067, 5>>, new_avg_ms |-> <<1136, 5>>,
      additional_latency_ms |-> <<69, 5>>, percent_increase |-> <<13, 2>>,
      old_p95_ms |-> <<218, 1>>, new_p95_ms |-> <<1146, 5>>,
      requests_tested |-> 15, status |-> "Good",
      endpoint_tested |-> "/health-check"] >>

\* the status column of the CSV report
csv_status(additional_mean) ==
  IF RLess(additional_mean, R(10)) THEN "Excellent"
  ELSE IF RLess(additional_mean, R(25)) THEN "Good"
  ELSE "Fair"

\* the row create_csv_reports makes of one result of the file
csv_results_row(r) ==
  LET old_stats == Get(r, "old_stats", EmptyDict)
      new_stats == Get(r, "new_stats", EmptyDict)
      additional == Get(r, "additional_latency_ms", EmptyDict)
  IN [environment |-> last_segment(Get(r, "endpoint", "")),
      old_avg_ms |-> Get(old_stats, "mean", R(0)),
      new_avg_ms |-> Get(new_stats, "mean", R(0)),
      additional_latency_ms |-> Get(additional, "mean", R(0)),
      percent_increase |-> IF RLess(R(0), Get(old_stats, "mean", R(0)))
                             THEN RMul(RDiv(Get(additional, "mean", R(0)),
                                            Get(old_stats, "mean", R(1))), R(100))
                             ELSE R(0),
      old_p95_ms |-> Get(old_stats, "p95", R(0)),
      new_p95_ms |-> Get(new_stats, "p95", R(0)),
      requests_tested |-> Get(old_stats, "count", 0),
      status |-> csv_status(Get(additional, "mean", R(0))),
      endpoint_tested |-> Get(r, "endpoint", "unknown")]

RECURSIVE csv_results_data(_)
csv_results_data(rs) ==
  IF rs = <<>> THEN <<>>
  ELSE IF "error" \in DOMAIN Head(rs) THEN csv_results_data(Tail(rs))
  ELSE <<csv_results_row(Head(rs))>> \o csv_results_data(Tail(rs))

\* the P95 line of performance_comparison.csv
csv_p95_percent(row) ==
  IF RLess(R(0), row.old_p95_ms)
  THEN RMul(RDiv(RSub(row.new_p95_ms, row.old_p95_ms), row.old_p95_ms), R(100))
  ELSE R(0)

\* create_csv_reports on the results list of the input file: the rows, the
\* P95 percentages of the comparison file, and the exception that ends it
create_csv_reports(rs) ==
  LET results_data == IF rs = <<>> THEN sample_results ELSE csv_results_data(rs)
  IN IF results_data = <<>>
     THEN [results_data |-> results_data, raised |-> "ZeroDivisionError"]
     ELSE [results_data |-> results_data,
           p95_percent |-> [j \in DOMAIN results_data |->
                              csv_p95_percent(results_data[j])]]

\* the status column of the Excel report
excel_status(additional_mean) ==
  IF RLess(additional_mean, R(25)) THEN "Good" ELSE "Fair"

\* whether the conversion of one result divides by an old mean of zero
excel_row_raises(r) ==
  Get(Get(r, "old_stats", EmptyDict), "mean", R(1)) = R(0)

\* the row create_excel_report makes of one result of the file
excel_results_row(r) ==
  LET old_stats == Get(r, "old_stats", EmptyDict)
      new_stats == Get(r, "new_stats", EmptyDict)
      additional == Get(r, "additional_latency_ms", EmptyDict)
  IN [environment |-> last_segment(Get(r, "endpoint", "")),
      old_avg_ms |-> Get(old_stats, "mean", R(0)),
      new_avg_ms |-> Get(new_stats, "mean", R(0)),
      additional_latency_ms |-> Get(additional, "mean", R(0)),
      percent_increase |-> RMul(RDiv(Get(additional, "mean", R(0)),
                                     Get(old_stats, "mean", R(1))), R(100)),
      old_p95_ms |-> Get(old_stats, "p95", R(0)),
      new_p95_ms |-> Get(new_stats, "p95", R(0)),
      requests_tested |-> Get(old_stats, "count", 0),
      status |-> excel_status(Get(additional, "mean", R(0)))]

RECURSIVE excel_results_data(_)
excel_results_data(rs) ==
  IF rs = <<>> THEN <<>>
  ELSE IF "error" \in DOMAIN Head(rs) THEN excel_results_data(Tail(rs))
  ELSE <<excel_results_row(Head(rs))>> \o excel_results_data(Tail(rs))

excel_sample_results ==
  [j \in DOMAIN sample_results |->
     [f \in DOMAIN sample_results[j] \ {"endpoint_tested"} |-> sample_results[j][f]]]

\* create_excel_report on the results list of the input file: the rows and
\* the exception that ends it (the conversion, the summary sheet, the
\* metrics sheet, in this order)
create_excel_report(rs) ==
  IF \E j \in DOMAIN rs : "error" \notin DOMAIN rs[j] /\ excel_row_raises(rs[j])
  THEN [raised |-> "ZeroDivisionError"]
  ELSE LET results_data == IF rs = <<>> THEN excel_sample_results
                           ELSE excel_results_data(rs)
       IN IF results_data = <<>>
          THEN [results_data |-> results_data, raised |-> "ZeroDivisionError"]
          ELSE IF \E j \in DOMAIN results_data : results_data[j].old_p95_ms = R(0)
          THEN [results_data |-> results_data, raised |-> "ZeroDivisionError"]
          ELSE [results_data |-> results_data]

\* ================================================= the other printers
\* variant: a delta of exactly 15 ms is still called good
enhanced_status_le15(additional) ==
  IF RLess(additional, R(5)) THEN "Excellent"
  ELSE IF ~RLess(R(15), additional) THEN "Good"
  ELSE IF RLess(additional, R(30)) THEN "Fair"
  ELSE "Concerning"

\* the status line of print_endpoint_summary
enhanced_status(additional) ==
  IF RLess(additional, R(5)) THEN "Excellent"
  ELSE IF RLess(additional, R(15)) THEN "Good"
  ELSE IF RLess(additional, R(30)) THEN "Fair"
  ELSE "Concerning"

\* EnhancedLatencyTest.print_endpoint_summary
print_endpoint_summary(c) ==
  IF "error" \in DOMAIN c THEN [error_line |-> c.error]
  ELSE IF "additional_latency" \notin DOMAIN c THEN [raised |-> "KeyError"]
  ELSE [old_avg |-> c.old_avg, new_avg |-> c.new_avg,
        additional |-> c.additional_latency, percent |-> c.percent_increase,
        status |-> enhanced_status(c.additional_latency)]

\* the dict test_endpoint returns when the warm-up and the loop are over
test_endpoint_result(ep, l) ==
  [name |-> ep, path |-> ep, auth_required |-> auth_required(ep), latencies |-> l]

\* one line of the table of _analyze_single_result
_analyze_single_result_row(old_val, new_val) ==
  LET diff == RSub(new_val, old_val)
  IN [old |-> old_val, new |-> new_val, additional |-> diff,
      percent_increase |-> IF RLess(R(0), old_val)
                             THEN RMul(RDiv(diff, old_val), R(100))
                             ELSE R(0)]

\* CustomEndpointTest._analyze_single_result
_analyze_single_result(r) ==
  IF r.old_latencies = <<>> \/ r.new_latencies = <<>>
  THEN [error |-> "No successful requests to analyze"]
  ELSE
    LET old_stats == table_stats(r.old_latencies)
        new_stats == table_stats(r.new_latencies)
        table == [m \in Metrics |->
                    _analyze_single_result_row(old_stats[m], new_stats[m])]
        mean_diff == RSub(new_stats.mean, old_stats.mean)
    IN IF RLess(mean_diff, R(0))
       THEN [table |-> table, summary |-> [difference |-> mean_diff]]
       ELSE IF old_stats.mean = R(0)
       THEN [table |-> table, raised |-> "ZeroDivisionError"]
       ELSE [table |-> table,
             summary |-> [additional |-> mean_diff,
                          percent |-> RMul(RDiv(mean_diff, old_stats.mean), R(100))]]

\* ============================================================ the drivers
\* main of the gateway script, main and run_comparison of the enhanced
\* script, run_all_tests and analyze_results of the custom script.  One
\* comparison (two batches) is one step here: its probes are the subject of
\* Spec, and the driver sees only what the batches return.
DriverScripts == {"gateway", "enhanced", "custom"}

\* the keys of old_urls / new_urls, and a name that is not among them (the
\* command lines admit the three keys only; the tester classes take any
\* string)
KnownEnvironments == {"dev", "test", "prod"}
Environments == {"dev", "staging"}

\* tester.test_endpoints / get_test_endpoints(), in order
endpoint_list(s) ==
  CASE s = "gateway"  -> <<"/health-check", "/inferred/brands/status",
                           "/inferred/logo-url">>
    [] s = "enhanced" -> <<"/health-check", "/inferred/brands/status",
                           "/inferred/brands", "/inferred/logo-url">>
    [] s = "custom"   -> <<"/inferred/brands/status", "/inferred/logo-url",
                           "/profile">>

\* the series a batch of n measured probes can return: one sample of 10 ms
\* for each probe that succeeded
BatchSeries(n) == UNION {[1..m -> {10}] : m \in 0..n}

\* what EnhancedLatencyTest.test_endpoint can return: the warm-up failed, or
\* the dict with the series
TestEndpointResults(ep, n) ==
  {[name |-> ep, error |-> "Warmup failed", latencies |-> <<>>]}
    \cup {test_endpoint_result(ep, l) : l \in BatchSeries(n)}

\* no comparison is running on its own
NoComparison ==
  /\ endpoint = "/health-check"
  /\ mpc = "idle"
  /\ pc = [b \in Batches |-> "idle"]
  /\ i = [b \in Batches |-> 0]
  /\ client = [b \in Batches |-> "none"]
  /\ headers = [b \in Batches |-> {}]
  /\ inflight = [b \in Batches |-> {}]
  /\ sent = [b \in Batches |-> 0]
  /\ latencies = [b \in Batches |-> <<>>]
  /\ warnings = 0
  /\ mlog = [b \in Batches |-> <<>>]
  /\ batch_result = [b \in Batches |-> <<>>]
  /\ result = <<>>

DriverInit ==
  /\ script \in DriverScripts
  /\ environment \in Environments
  /\ num_requests \in 0..MaxRequests
  /\ IF script = "custom"
       THEN /\ token_ok = TRUE
            /\ auth_token \in Tokens(script)
            /\ dpc = "loop"
       ELSE /\ token_ok \in BOOLEAN
            /\ auth_token = ""
            /\ dpc = "auth"
  /\ next_ep = 1
  /\ results = <<>>
  /\ probed = {}
  /\ surfaced = 0
  /\ NoComparison
  /\ ReportIdle
  /\ StatsIdle

\* variant: main logs the failure and goes on without a token
main_auth_continue ==
  /\ script = "gateway"
  /\ dpc = "auth"
  /\ IF token_ok
       THEN /\ auth_token' = "tok"
            /\ UNCHANGED surfaced
       ELSE /\ surfaced' = surfaced + 1
            /\ UNCHANGED auth_token
  /\ dpc' = "loop"
  /\ UNCHANGED <<svars, script, endpoint, num_requests, mpc, pc, i, client, headers,
                 inflight, sent, latencies, warnings, mlog, batch_result, result,
                 environment, token_ok, next_ep, results, probed, rvars>>

\* main: the token client; on an exception logger.error and return
main_auth ==
  /\ script = "gateway"
  /\ dpc = "auth"
  /\ IF token_ok
       THEN /\ auth_token' = "tok"
            /\ dpc' = "loop"
            /\ UNCHANGED surfaced
       ELSE /\ surfaced' = surfaced + 1
            /\ dpc' = "done"
            /\ UNCHANGED auth_token
  /\ UNCHANGED <<svars, script, endpoint, num_requests, mpc, pc, i, client, headers,
                 inflight, sent, latencies, warnings, mlog, batch_result, result,
                 environment, token_ok, next_ep, results, probed, rvars>>

\* main: one turn of for endpoint in tester.test_endpoints.  get_urls raises
\* ValueError for an environment without URLs, before any probe; the except
\* clause logs it and appends an error entry
main_loop ==
  /\ script = "gateway"
  /\ dpc = "loop"
  /\ LET ep == endpoint_list(script)[next_ep] IN
       IF environment \notin KnownEnvironments
         THEN /\ results' = Append(results, [endpoint |-> ep,
                                             error |-> "Unknown environment"])
              /\ surfaced' = surfaced + 1
              /\ UNCHANGED probed
         ELSE /\ \E old_latencies \in BatchSeries(num_requests) :
                 \E new_latencies \in BatchSeries(num_requests) :
                   results' = Append(results,
                     compare_latencies_result(ep, old_latencies, new_latencies))
              /\ probed' = probed \cup {[endpoint |-> ep, authorization |-> auth_token]}
              /\ UNCHANGED surfaced
  /\ next_ep' = next_ep + 1
  /\ dpc' = IF next_ep = Len(endpoint_list(script)) THEN "print" ELSE "loop"
  /\ UNCHANGED <<svars, vars, environment, token_ok, rvars>>

\* main: print_results(results); an exception in it ends the run
main_print_results ==
  /\ script = "gateway"
  /\ dpc = "print"
  /\ printed' = <<print_results(results)>>
  /\ dpc' = IF \E j \in DOMAIN print_results(results) :
                 "raised" \in DOMAIN print_results(results)[j]
            THEN "crashed" ELSE "done"
  /\ UNCHANGED <<svars, vars, environment, token_ok, next_ep, results, probed, surfaced,
                 old_series, new_series, rpc, comparison, csv_report,
                 excel_report, summaries>>

\* enhanced main: the token client; on an exception print and return
enhanced_main_auth ==
  /\ script = "enhanced"
  /\ dpc = "auth"
  /\ IF token_ok
       THEN /\ auth_token' = "tok"
            /\ dpc' = "urls"
            /\ UNCHANGED surfaced
       ELSE /\ surfaced' = surfaced + 1
            /\ dpc' = "done"
            /\ UNCHANGED auth_token
  /\ UNCHANGED <<svars, script, endpoint, num_requests, mpc, pc, i, client, headers,
                 inflight, sent, latencies, warnings, mlog, batch_result, result,
                 environment, token_ok, next_ep, results, probed, rvars>>

\* run_comparison: the URLs of the environment; without them print and return
enhanced_run_comparison_urls ==
  /\ script = "enhanced"
  /\ dpc = "urls"
  /\ IF environment \notin KnownEnvironments
       THEN /\ surfaced' = surfaced + 1
            /\ dpc' = "done"
       ELSE /\ dpc' = "loop"
            /\ UNCHANGED surfaced
  /\ UNCHANGED <<svars, vars, environment, token_ok, next_ep, results, probed, rvars>>

\* run_comparison: one turn of for endpoint in endpoints: the old batch, the
\* new batch, compare_results, results.append, print_endpoint_summary
enhanced_run_comparison_loop ==
  /\ script = "enhanced"
  /\ dpc = "loop"
  /\ LET ep == endpoint_list(script)[next_ep] IN
       /\ \E old_result \in TestEndpointResults(ep, num_requests) :
          \E new_result \in TestEndpointResults(ep, num_requests) :
            LET c == compare_results(old_result, new_result) IN
              /\ results' = Append(results, c)
              /\ IF "raised" \in DOMAIN print_endpoint_summary(c)
                   THEN /\ dpc' = "crashed"
                        /\ UNCHANGED next_ep
                   ELSE /\ dpc' = IF next_ep = Len(endpoint_list(script))
                                    THEN "summary" ELSE "loop"
                        /\ next_ep' = next_ep + 1
       /\ probed' = probed \cup
            {[endpoint |-> ep,
              authorization |-> IF auth_required(ep) THEN auth_token ELSE ""]}
  /\ UNCHANGED <<svars, vars, environment, token_ok, surfaced, rvars>>

\* EnhancedLatencyTest.print_final_summary: the entries without an "error"
\* key are read for old_avg, new_avg, additional_latency, percent_increase
enhanced_print_final_summary ==
  /\ script = "enhanced"
  /\ dpc = "summary"
  /\ dpc' = IF \E j \in DOMAIN results :
                 /\ "error" \notin DOMAIN results[j]
                 /\ "old_avg" \notin DOMAIN results[j]
            THEN "crashed" ELSE "done"
  /\ UNCHANGED <<svars, vars, environment, token_ok, next_ep, results, probed, surfaced,
                 rvars>>

\* run_all_tests: one turn of for endpoint in self.test_endpoints;
\* test_endpoint looks the environment up with [] (KeyError when unknown),
\* then runs the old and the new measurement loop
custom_run_all_tests_loop ==
  /\ script = "custom"
  /\ dpc = "loop"
  /\ LET ep == endpoint_list(script)[next_ep] IN
       IF environment \notin KnownEnvironments
         THEN /\ dpc' = "crashed"
              /\ UNCHANGED <<results, probed, next_ep>>
         ELSE /\ \E old_latencies \in BatchSeries(num_requests) :
                 \E new_latencies \in BatchSeries(num_requests) :
                   results' = Append(results, [endpoint |-> ep,
                                               old_latencies |-> old_latencies,
                                               new_latencies |-> new_latencies])
              /\ probed' = IF num_requests > 0
                             THEN probed \cup {[endpoint |-> ep,
                                                authorization |-> auth_token]}
                             ELSE probed
              /\ next_ep' = next_ep + 1
              /\ dpc' = IF next_ep = Len(endpoint_list(script)) THEN "print" ELSE "loop"
  /\ UNCHANGED <<svars, vars, environment, token_ok, surfaced, rvars>>

\* analyze_results: _analyze_single_result for every entry
custom_analyze_results_all ==
  /\ script = "custom"
  /\ dpc = "print"
  /\ dpc' = IF \E j \in DOMAIN results :
                 "raised" \in DOMAIN _analyze_single_result(results[j])
            THEN "crashed" ELSE "done"
  /\ UNCHANGED <<svars, vars, environment, token_ok, next_ep, results, probed, surfaced,
                 rvars>>

DriverNext ==
  \/ main_auth
  \/ main_loop
  \/ main_print_results
  \/ enhanced_main_auth
  \/ enhanced_run_comparison_urls
  \/ enhanced_run_comparison_loop
  \/ enhanced_print_final_summary
  \/ custom_run_all_tests_loop
  \/ custom_analyze_results_all

DriverSpec == DriverInit /\ [][DriverNext]_allvars

\* ============================ the printers and generators on given series
MaxSeriesLen == 2         \* longest series given to the statistics

\* latencies in ms: none at all, the 100 -> 115 example, and the deltas
\* around the thresholds 5, 10, 15, 25 and 30
SeriesValues == {0, 100, 105, 115, 130}
Series == UNION {[1..m -> SeriesValues] : m \in 0..MaxSeriesLen}

ReportInit ==
  /\ script = "gateway"
  /\ auth_token = "tok"
  /\ num_requests = MaxRequests
  /\ NoComparison
  /\ DriverIdle
  /\ StatsIdle
  /\ old_series \in Series
  /\ new_series \in Series
  /\ rpc = "compare"
  /\ comparison = <<>>
  /\ printed = <<>>
  /\ csv_report = <<>>
  /\ excel_report = <<>>
  /\ summaries = [p \in Printers |-> <<>>]

\* compare_latencies once both series are in: statistics, delta, dict
report_compare_latencies ==
  /\ rpc = "compare"
  /\ comparison' = <<compare_latencies_result(endpoint, old_series, new_series)>>
  /\ rpc' = "print"
  /\ UNCHANGED <<svars, vars, dvars, old_series, new_series, printed, csv_report,
                 excel_report, summaries>>

\* main: print_results(results), then the results are saved to the output
\* file; an exception in the printer ends main before the file is written
report_print_results ==
  /\ rpc = "print"
  /\ printed' = <<print_results(comparison)>>
  /\ rpc' = IF "raised" \in DOMAIN print_results(comparison)[1] THEN "enhanced"
            ELSE "csv"
  /\ UNCHANGED <<svars, vars, dvars, old_series, new_series, comparison, csv_report,
                 excel_report, summaries>>

\* generate_csv_report.py on the saved file
report_create_csv_reports ==
  /\ rpc = "csv"
  /\ csv_report' = <<create_csv_reports(comparison)>>
  /\ rpc' = "excel"
  /\ UNCHANGED <<svars, vars, dvars, old_series, new_series, comparison, printed,
                 excel_report, summaries>>

\* generate_excel_report.py on the saved file
report_create_excel_report ==
  /\ rpc = "excel"
  /\ excel_report' = <<create_excel_report(comparison)>>
  /\ rpc' = "enhanced"
  /\ UNCHANGED <<svars, vars, dvars, old_series, new_series, comparison, printed,
                 csv_report, summaries>>

\* the enhanced script on the same series: compare_results, then
\* print_endpoint_summary
report_print_endpoint_summary ==
  /\ rpc = "enhanced"
  /\ summaries' = [summaries EXCEPT !["enhanced"] =
       <<print_endpoint_summary(
           compare_results(test_endpoint_result(endpoint, old_series),
                           test_endpoint_result(endpoint, new_series)))>>]
  /\ rpc' = "quick"
  /\ UNCHANGED <<svars, vars, dvars, old_series, new_series, comparison, printed,
                 csv_report, excel_report>>

\* the quick script on the same series
report_quick_compare ==
  /\ rpc = "quick"
  /\ summaries' = [summaries EXCEPT !["quick"] =
                     <<quick_compare(old_series, new_series)>>]
  /\ rpc' = "custom"
  /\ UNCHANGED <<svars, vars, dvars, old_series, new_series, comparison, printed,
                 csv_report, excel_report>>

\* the custom script on the same series
report_analyze_single_result ==
  /\ rpc = "custom"
  /\ summaries' = [summaries EXCEPT !["custom"] =
       <<_analyze_single_result([endpoint |-> endpoint,
                                 old_latencies |-> old_series,
                                 new_latencies |-> new_series])>>]
  /\ rpc' = "done"
  /\ UNCHANGED <<svars, vars, dvars, old_series, new_series, comparison, printed,
                 csv_report, excel_report>>

ReportNext ==
  \/ report_compare_latencies
  \/ report_print_results
  \/ report_create_csv_reports
  \/ report_create_excel_report
  \/ report_print_endpoint_summary
  \/ report_quick_compare
  \/ report_analyze_single_result

ReportSpec == ReportInit /\ [][ReportNext]_allvars
\* ===================================== the statistics functions on one list
\* QuickLatencyTest._percentile: no test for an empty list, sorted_data[0]
\* raises IndexError on it
quick_percentile(data, percentile) ==
  IF data = <<>> THEN [raised |-> "IndexError"]
  ELSE
    LET sorted_data == sorted(data)
        index == RNorm(percentile * (Len(sorted_data) - 1), 100)
        lower_index == RFloor(index)
        upper_index == Min2(lower_index + 1, Len(sorted_data) - 1)
        weight == RSub(index, R(lower_index))
    IN RAdd(RMul(R(sorted_data[lower_index + 1]), RSub(R(1), weight)),
            RMul(R(sorted_data[upper_index + 1]), weight))

\* SimpleHealthCheckTest._percentile
health_percentile(data, percentile) ==
  IF data = <<>> THEN [raised |-> "IndexError"]
  ELSE
    LET sorted_data == sorted(data)
        index == RNorm(percentile * (Len(sorted_data) - 1), 100)
        lower == RFloor(index)
        upper == Min2(lower + 1, Len(sorted_data) - 1)
        weight == RSub(index, R(lower))
    IN RAdd(RMul(R(sorted_data[lower + 1]), RSub(R(1), weight)),
            RMul(R(sorted_data[upper + 1]), weight))

\* CustomEndpointTest._percentile
custom_percentile(data, percentile) ==
  IF data = <<>> THEN [raised |-> "IndexError"]
  ELSE
    LET sorted_data == sorted(data)
        index == RNorm(percentile * (Len(sorted_data) - 1), 100)
        lower == RFloor(index)
        upper == Min2(lower + 1, Len(sorted_data) - 1)
        weight == RSub(index, R(lower))
    IN RAdd(RMul(R(sorted_data[lower + 1]), RSub(R(1), weight)),
            RMul(R(sorted_data[upper + 1]), weight))

\* variant: the upper index is lower_index + 1, not clamped
_percentile_indices_unclamped(data, percentile) ==
  LET index == RNorm(percentile * (Len(data) - 1), 100)
      lower_index == RFloor(index)
  IN [lower_index |-> lower_index, upper_index |-> lower_index + 1]

\* the two indices LatencyTester._percentile reads sorted_data at (0-based)
_percentile_indices(data, percentile) ==
  LET index == RNorm(percentile * (Len(data) - 1), 100)
      lower_index == RFloor(index)
  IN [lower_index |-> lower_index,
      upper_index |-> Min2(lower_index + 1, Len(data) - 1)]

MaxSamples == 4           \* longest list handed to the statistics

\* the values of the 10, 20, 30, 40 example, in any order and number
SampleValues == {10, 20, 30, 40}
SampleLists == UNION {[1..m -> SampleValues] : m \in 0..MaxSamples}

\* the percentiles the scripts ask for (95, 99), the ends and the quartiles
Percentiles == {0, 25, 50, 75, 95, 99, 100}

StatsInit ==
  /\ script = "gateway"
  /\ auth_token = "tok"
  /\ num_requests = MaxRequests
  /\ NoComparison
  /\ DriverIdle
  /\ ReportIdle
  /\ samples \in SampleLists
  /\ samples_given = samples
  /\ pctl \in Percentiles
  /\ spc = "gateway"
  /\ pctl_out = [c \in PercentileCopies |-> <<>>]
  /\ stats_out = <<>>

\* self._percentile(data, percentile) of the gateway script; sorted(data)
\* builds a new list, data is not touched
stats_percentile ==
  /\ spc = "gateway"
  /\ pctl_out' = [pctl_out EXCEPT !["gateway"] =
       << IF samples = <<>> THEN [value |-> _percentile(samples, pctl)]
          ELSE [value |-> _percentile(samples, pctl),
                indices |-> _percentile_indices(samples, pctl)] >>]
  /\ spc' = "quick"
  /\ UNCHANGED <<vars, dvars, rvars, samples, samples_given, pctl, stats_out>>

stats_quick_percentile ==
  /\ spc = "quick"
  /\ pctl_out' = [pctl_out EXCEPT !["quick"] =
                    << [value |-> quick_percentile(samples, pctl)] >>]
  /\ spc' = "health"
  /\ UNCHANGED <<vars, dvars, rvars, samples, samples_given, pctl, stats_out>>

stats_health_percentile ==
  /\ spc = "health"
  /\ pctl_out' = [pctl_out EXCEPT !["health"] =
                    << [value |-> health_percentile(samples, pctl)] >>]
  /\ spc' = "custom"
  /\ UNCHANGED <<vars, dvars, rvars, samples, samples_given, pctl, stats_out>>

stats_custom_percentile ==
  /\ spc = "custom"
  /\ pctl_out' = [pctl_out EXCEPT !["custom"] =
                    << [value |-> custom_percentile(samples, pctl)] >>]
  /\ spc' = "stats"
  /\ UNCHANGED <<vars, dvars, rvars, samples, samples_given, pctl, stats_out>>

\* variant: the list is sorted in place (latencies.sort()) before the
\* statistics are taken
stats_calculate_stats_in_place ==
  /\ spc = "stats"
  /\ stats_out' = Append(stats_out, calculate_stats(samples))
  /\ samples' = sorted(samples)
  /\ spc' = IF Len(stats_out) = 1 THEN "done" ELSE "stats"
  /\ UNCHANGED <<vars, dvars, rvars, samples_given, pctl, pctl_out>>

\* calculate_stats(latencies), called twice on the same list: statistics,
\* sorted() and _percentile read the list and build new values
stats_calculate_stats ==
  /\ spc = "stats"
  /\ stats_out' = Append(stats_out, calculate_stats(samples))
  /\ spc' = IF Len(stats_out) = 1 THEN "done" ELSE "stats"
  /\ UNCHANGED <<vars, dvars, rvars, samples, samples_given, pctl, pctl_out>>

StatsNext ==
  \/ stats_percentile
  \/ stats_quick_percentile
  \/ stats_health_percentile
  \/ stats_custom_percentile
  \/ stats_calculate_stats

StatsSpec == StatsInit /\ [][StatsNext]_allvars

\* ============================================== the generators on a file
\* generate_csv_report.py and generate_excel_report.py run on a results
\* file: data.get('results', []) is any list of entries of the shapes the
\* gateway driver makes ({endpoint, error} or a comparison dict).
MaxFileResults == 2       \* longest results list of an input file explored

FileEndpoints ==
  {endpoint_list("gateway")[j] : j \in DOMAIN endpoint_list("gateway")}

FileEntries ==
  {[endpoint |-> ep, error |-> "failed"] : ep \in FileEndpoints}
    \cup {compare_latencies_result(ep, o, n) :
            ep \in FileEndpoints, o \in {<<>>, <<100>>}, n \in {<<>>, <<115>>}}

FileResults ==
  UNION {[1..n -> FileEntries] : n \in 0..MaxFileResults}

FileInit ==
  /\ script = "gateway"
  /\ auth_token = "tok"
  /\ num_requests = MaxRequests
  /\ NoComparison
  /\ StatsIdle
  /\ environment = "dev"
  /\ token_ok = TRUE
  /\ dpc = "idle"
  /\ next_ep = 1
  /\ results \in FileResults
  /\ probed = {}
  /\ surfaced = 0
  /\ old_series = <<>>
  /\ new_series = <<>>
  /\ rpc = "file"
  /\ comparison = <<>>
  /\ printed = <<>>
  /\ csv_report = <<>>
  /\ excel_report = <<>>
  /\ summaries = [p \in Printers |-> <<>>]

\* generate_csv_report.py --input file
file_create_csv_reports ==
  /\ rpc = "file"
  /\ csv_report = <<>>
  /\ csv_report' = <<create_csv_reports(results)>>
  /\ UNCHANGED <<svars, vars, dvars, old_series, new_series, rpc, comparison, printed,
                 excel_report, summaries>>

\* generate_excel_report.py --input file
file_create_excel_report ==
  /\ rpc = "file"
  /\ excel_report = <<>>
  /\ excel_report' = <<create_excel_report(results)>>
  /\ UNCHANGED <<svars, vars, dvars, old_series, new_series, rpc, comparison, printed,
                 csv_report, summaries>>

FileNext ==
  \/ file_create_csv_reports
  \/ file_create_excel_report

FileSpec == FileInit /\ [][FileNext]_allvars

\* ================================================================ claims
\* the latencies of the successful entries of a probe history, in order
RECURSIVE SuccessLatencies(_)
SuccessLatencies(log) ==
  IF log = <<>> THEN <<>>
  ELSE LET o == Head(log)[1]
       IN (IF ~o.raised /\ o.status < 500 THEN <<o.elapsed>> ELSE <<>>)
            \o SuccessLatencies(Tail(log))

ProbeScripts == {"enhanced", "quick", "health", "custom"}
WarmupScripts == {"gateway", "enhanced", "quick"}

\* C1: every probe of measure_request_latency yields a latency exactly when
\* a response with status < 500 was received, and None (never an escaping
\* exception, never both) when the GET raised or the status is >= 500.
C1_ProbeOutcome ==
  script = "gateway" =>
    \A b \in Batches : \A k \in DOMAIN mlog[b] :
      LET o == mlog[b][k][1]
          r == mlog[b][k][2]
      IN /\ r.kind \in {"latency", "None"}
         /\ r.kind = "latency" <=> (~o.raised /\ o.status < 500)
         /\ r.kind = "None" <=> (o.raised \/ o.status >= 500)
         /\ r.kind = "latency" => r.ms = o.elapsed
         /\ r.kind = "None" => r = None

C1_Witness ==
  /\ script = "gateway"
  /\ \E k \in DOMAIN mlog["old"] :
       mlog["old"][k][1].status = 404 /\ mlog["old"][k][2] = Latency(20)
  /\ \E k \in DOMAIN mlog["old"] :
       mlog["old"][k][1].status = 500 /\ mlog["old"][k][2] = None
  /\ \E k \in DOMAIN mlog["new"] :
       mlog["new"][k][1].raised /\ mlog["new"][k][2] = None

\* C2: in the measurement loop of the health check, custom, enhanced and
\* quick scripts a received response adds a value to the series exactly when
\* its status is < 500.
C2_SampleIffBelow500 ==
  script \in ProbeScripts =>
    \A b \in Batches : \A k \in DOMAIN mlog[b] :
      LET o == mlog[b][k][1]
          r == mlog[b][k][2]
      IN ~o.raised => (r.kind = "latency" <=> o.status < 500)

\* C3: in every batch with a warm-up, whatever the warm-up outcomes, the
\* batch issues all num_requests measured probes and returns a series, not
\* an error result.
C3_WarmupNeverAborts ==
  script \in WarmupScripts =>
    \A b \in Batches :
      pc[b] = "done" =>
        /\ Len(mlog[b]) = num_requests
        /\ script = "enhanced" => "error" \notin DOMAIN batch_result[b][1]

\* C4: within one batch of run_latency_test at most one probe is in flight,
\* and a probe is issued only after the outcome of the previous one has been
\* received and recorded, also while the other batch is running.
C4_OneInFlight ==
  script = "gateway" =>
    \A b \in Batches :
      /\ Cardinality(inflight[b]) <= 1
      /\ inflight[b] \subseteq {sent[b]}
      /\ sent[b] > WarmupRequests =>
           Len(mlog[b]) = sent[b] - WarmupRequests - Cardinality(inflight[b])

C4_Witness ==
  /\ script = "gateway"
  /\ inflight["old"] = {5}
  /\ inflight["new"] = {2}

\* C5: the series of a batch is exactly the latencies of its successful
\* measured probes in issue order; warm-up outcomes are never in it, nothing
\* is dropped or duplicated, and its length never exceeds the number of
\* measured probes completed so far.
C5_SeriesInOrder ==
  script = "gateway" =>
    \A b \in Batches :
      /\ latencies[b] = SuccessLatencies(mlog[b])
      /\ Len(latencies[b]) <= Len(mlog[b])
      /\ Len(mlog[b]) <= num_requests
      /\ sent[b] <= WarmupRequests => latencies[b] = <<>>
      /\ pc[b] = "done" =>
           /\ Len(mlog[b]) = num_requests
           /\ batch_result[b] = << SuccessLatencies(mlog[b]) >>

C5_Witness ==
  /\ script = "gateway"
  /\ pc["old"] = "done" /\ warnings = 1
  /\ batch_result["old"] = << <<20, 10>> >>
  /\ pc["new"] = "done"
  /\ Len(mlog["new"]) = 2 /\ batch_result["new"] = << <<10>> >>

\* C6: the failed measured probes are counted, once each, so that when the
\* batches have completed series length + failure count = num_requests for
\* each of them (the failures of the two batches go to one log, so the two
\* equations are added up).
C6_FailuresCounted ==
  (script = "gateway" /\ \A b \in Batches : pc[b] = "done") =>
    Len(latencies["old"]) + Len(latencies["new"]) + warnings = 2 * num_requests

\* C7: every request carries the Authorization header exactly when the
\* endpoint requires authentication.
C7_AuthHeaderIffRequired ==
  script \in {"gateway", "enhanced", "health"} =>
    \A b \in Batches :
      sent[b] > 0 => ("Authorization" \in headers[b] <=> auth_required(endpoint))

\* C8: compare_latencies computes statistics, delta and result only after
\* both batches have completed; no probe is pending when a result exists,
\* and the result is built from the two completed series.
C8_ResultAfterBothDone ==
  (script = "gateway" /\ result # <<>>) =>
    /\ \A b \in Batches : pc[b] = "done" /\ inflight[b] = {} /\ client[b] = "closed"
    /\ result[1].raw_data.old_latencies = latencies["old"]
    /\ result[1].raw_data.new_latencies = latencies["new"]
    /\ \A b \in Batches : Len(mlog[b]) = num_requests

C8_Witness ==
  /\ script = "gateway"
  /\ result # <<>>
  /\ num_requests = 2
  /\ "mean" \in DOMAIN result[1].additional_latency_ms

\* C9: the comparison runs both batches concurrently: neither batch waits
\* for the other, so the new batch is under way whenever the old one is.
C9_NeitherWaits ==
  script \in WarmupScripts =>
    ~(pc["old"] # "idle" /\ pc["new"] = "idle")

\* C10: a comparison result carries a numeric delta exactly when both
\* series have at least one sample; otherwise it carries an explicit no-data
\* marker, no delta and no numeric field.
C10_DeltaIffData ==
  /\ (script = "gateway" /\ result # <<>>) =>
       LET r == result[1]
           both == SuccessLatencies(mlog["old"]) # <<>> /\ SuccessLatencies(mlog["new"]) # <<>>
       IN /\ DOMAIN r.additional_latency_ms = (IF both THEN {"mean", "median", "p95", "p99"} ELSE {})
          /\ SuccessLatencies(mlog["old"]) = <<>> <=> DOMAIN r.old_stats = {"error"}
          /\ SuccessLatencies(mlog["new"]) = <<>> <=> DOMAIN r.new_stats = {"error"}
          /\ SuccessLatencies(mlog["old"]) # <<>> => r.old_stats.count = Len(latencies["old"])
          /\ SuccessLatencies(mlog["new"]) # <<>> => r.new_stats.count = Len(latencies["new"])
  /\ (script = "enhanced" /\ result # <<>>) =>
       LET r == result[1]
           both == latencies["old"] # <<>> /\ latencies["new"] # <<>>
           numeric == {"old_avg", "new_avg", "additional_latency", "percent_increase",
                       "old_count", "new_count"}
       IN /\ both => numeric \subseteq DOMAIN r
          /\ ~both => /\ DOMAIN r \cap numeric = {}
                      /\ DOMAIN r \cap {"error", "old_error", "new_error"} # {}

C10_Witness ==
  /\ script = "gateway"
  /\ result # <<>>
  /\ latencies["old"] = <<>>
  /\ Len(latencies["new"]) = 2
  /\ warnings = WarmupRequests + 2


\* ---- the printers and report generators (ReportSpec)
BothHaveData == old_series # <<>> /\ new_series # <<>>
Raised(out) == out # <<>> /\ "raised" \in DOMAIN out[1]

\* C11: in the table print_results prints for a comparison with data on
\* both sides, every metric (mean, median, p95, p99) shows the old and new
\* value of the statistics, delta = new - old, and percent = delta / old * 100
\* when old > 0 and 0 otherwise (old mean 100, new mean 115: +15 ms, +15 %).
C11_DeltaAndPercent ==
  (printed # <<>> /\ "table" \in DOMAIN printed[1][1]) =>
    LET old_stats == calculate_stats(old_series)
        new_stats == calculate_stats(new_series)
    IN \A m \in Metrics :
      LET row == printed[1][1].table[m]
      IN /\ row.old = old_stats[m]
         /\ row.new = new_stats[m]
         /\ RAdd(row.old, row.additional) = row.new
         /\ RLess(R(0), row.old) =>
              RMul(row.percent_increase, row.old) = RMul(row.additional, R(100))
         /\ ~RLess(R(0), row.old) => row.percent_increase = R(0)

C11_Witness ==
  /\ printed # <<>>
  /\ "table" \in DOMAIN printed[1][1]
  /\ printed[1][1].table["mean"].old = R(100)
  /\ printed[1][1].table["mean"].new = R(115)
  /\ printed[1][1].table["mean"].additional = R(15)
  /\ printed[1][1].table["mean"].percent_increase = R(15)

\* C12: no percentage computation divides by zero: whatever the old value
\* of two series with data, the gateway printer, the quick, enhanced and
\* custom printers and both report generators end without ZeroDivisionError.
C12_NeverDivisionByZero ==
  BothHaveData =>
    /\ ~(printed # <<>> /\ "raised" \in DOMAIN printed[1][1])
    /\ ~Raised(csv_report)
    /\ ~Raised(excel_report)
    /\ \A p \in Printers : ~Raised(summaries[p])

\* the band the spec gives a mean delta d
InBand(d, verdict) ==
  /\ RLess(d, R(5)) => verdict = "Excellent"
  /\ (~RLess(d, R(5)) /\ RLess(d, R(15))) => verdict = "Good"
  /\ (~RLess(d, R(15)) /\ RLess(d, R(30))) => verdict = "Fair"
  /\ ~RLess(d, R(30)) => verdict = "Concerning"

\* C13: the verdict the enhanced and quick scripts print for a mean delta d
\* is Excellent for d < 5 (negative d included), Good for 5 <= d < 15, Fair
\* for 15 <= d < 30 and Concerning for d >= 30.
C13_VerdictBands ==
  /\ (summaries["enhanced"] # <<>> /\ "status" \in DOMAIN summaries["enhanced"][1]) =>
       /\ summaries["enhanced"][1].additional = RSub(mean(new_series), mean(old_series))
       /\ InBand(summaries["enhanced"][1].additional, summaries["enhanced"][1].status)
  /\ (summaries["quick"] # <<>> /\ "assessment" \in DOMAIN summaries["quick"][1]) =>
       /\ summaries["quick"][1].additional_latency =
            RSub(mean(new_series), mean(old_series))
       /\ InBand(summaries["quick"][1].additional_latency,
                 summaries["quick"][1].assessment)

C13_Witness ==
  /\ summaries["enhanced"] # <<>>
  /\ summaries["quick"] # <<>>
  /\ "status" \in DOMAIN summaries["enhanced"][1]
  /\ "assessment" \in DOMAIN summaries["quick"][1]
  /\ summaries["enhanced"][1].additional = R(15)
  /\ summaries["enhanced"][1].status = "Fair"
  /\ summaries["quick"][1].assessment = "Fair"

\* C14: for two series with data, the status column of the CSV report and
\* of the Excel report is the verdict of the 5 / 15 / 30 bands for the same
\* mean delta.
C14_ReportStatusIsVerdict ==
  BothHaveData =>
    /\ (csv_report # <<>> /\ ~Raised(csv_report)) =>
         \A j \in DOMAIN csv_report[1].results_data :
           InBand(csv_report[1].results_data[j].additional_latency_ms,
                  csv_report[1].results_data[j].status)
    /\ (excel_report # <<>> /\ "results_data" \in DOMAIN excel_report[1]) =>
         \A j \in DOMAIN excel_report[1].results_data :
           InBand(excel_report[1].results_data[j].additional_latency_ms,
                  excel_report[1].results_data[j].status)

\* ---- the drivers (DriverSpec)
EntryEndpoint(e) == IF "endpoint" \in DOMAIN e THEN e.endpoint ELSE e.name
RunEnded == dpc \in {"done", "crashed"}

\* C15: a run over a known environment with a token ends normally with one
\* entry per requested endpoint, in the order of the endpoint list, whatever
\* the probes did; an endpoint whose probes all failed (warm-up included)
\* does not keep the later endpoints from being compared.
C15_OneEntryPerEndpoint ==
  (environment \in KnownEnvironments /\ token_ok /\ RunEnded) =>
    /\ dpc = "done"
    /\ Len(results) = Len(endpoint_list(script))
    /\ \A j \in DOMAIN results : EntryEndpoint(results[j]) = endpoint_list(script)[j]

\* C16: when the token provider fails, the gateway and enhanced mains
\* report the failure once and end before any probe: nothing is probed, no
\* result is made, and no auth-requiring endpoint is ever probed without a
\* token.
C16_TokenFailureEndsRun ==
  script \in {"gateway", "enhanced"} =>
    /\ ~token_ok =>
         /\ probed = {}
         /\ results = <<>>
         /\ dpc \in {"auth", "done"}
         /\ dpc = "auth" => surfaced = 0
         /\ dpc = "done" => surfaced = 1
    /\ \A p \in probed : auth_required(p.endpoint) => p.authorization # ""

C16_Witness ==
  /\ script \in {"gateway", "enhanced"}
  /\ ~token_ok
  /\ dpc = "done"
  /\ surfaced = 1
  /\ probed = {}

\* C17: a token failure is fatal for the auth-requiring endpoints only: the
\* run that ends after it has still probed /health-check and holds a result
\* for it.
C17_HealthCheckStillProbed ==
  (script \in {"gateway", "enhanced"} /\ environment \in KnownEnvironments
     /\ ~token_ok /\ RunEnded) =>
    /\ \E p \in probed : p.endpoint = "/health-check"
    /\ \E j \in DOMAIN results : EntryEndpoint(results[j]) = "/health-check"

NoData ==
  /\ comparison # <<>>
  /\ \/ "error" \in DOMAIN comparison[1].old_stats
     \/ "error" \in DOMAIN comparison[1].new_stats

\* C19: a comparison without data reaches the reports as a gap: neither
\* generator makes a row of it (no zero latency, no status), and neither
\* generator raises on it.
C19_NoDataIsAGap ==
  NoData =>
    /\ csv_report # <<>> =>
         /\ \A j \in DOMAIN csv_report[1].results_data :
              csv_report[1].results_data[j].endpoint_tested # comparison[1].endpoint
         /\ "raised" \notin DOMAIN csv_report[1]
    /\ excel_report # <<>> =>
         /\ "raised" \notin DOMAIN excel_report[1]
         /\ \A j \in DOMAIN excel_report[1].results_data :
              excel_report[1].results_data[j].environment
                # last_segment(comparison[1].endpoint)

\* C20: the statistics of an empty series are a summary with count 0 and
\* no other numeric field.
C20_EmptySummaryHasCountZero ==
  (comparison # <<>> /\ old_series = <<>>) =>
    /\ "count" \in DOMAIN comparison[1].old_stats
    /\ comparison[1].old_stats.count = 0
    /\ DOMAIN comparison[1].old_stats \cap
         {"mean", "median", "min", "max", "std_dev", "p95", "p99"} = {}

\* ---- the statistics functions (StatsSpec)
PercentileDone == \A c \in PercentileCopies : pctl_out[c] # <<>>

\* C21: for a non-empty list of n values and p in 0..100, _percentile
\* returns sorted[lo] * (1 - w) + sorted[hi] * w with index = p / 100 * (n - 1),
\* lo = floor(index), hi = min(lo + 1, n - 1), w = index - lo (stated here in
\* hundredths: index = lo + r / 100), and the quick, health and custom copies
\* return the same value; percentile([10, 20, 30, 40], 75) = 32.5.
C21_PercentileFormula ==
  (PercentileDone /\ samples_given # <<>>) =>
    LET s == sorted(samples_given)
        n == Len(s)
        lo == (pctl * (n - 1)) \div 100
        r == (pctl * (n - 1)) % 100
        hi == IF lo + 1 < n - 1 THEN lo + 1 ELSE n - 1
        v == pctl_out["gateway"][1].value
    IN /\ RMul(v, R(100)) = R(s[lo + 1] * (100 - r) + s[hi + 1] * r)
       /\ \A c \in PercentileCopies : pctl_out[c][1].value = v

C21_Witness ==
  /\ PercentileDone
  /\ samples_given = <<40, 10, 30, 20>>
  /\ pctl = 75
  /\ \A c \in PercentileCopies : pctl_out[c][1].value = <<65, 2>>

\* C22: for a non-empty list, the 100th percentile is the maximum and the
\* 0th percentile the minimum of the list, and both indices read are within
\* 0 .. n - 1 for every p.
C22_PercentileEnds ==
  (pctl_out["gateway"] # <<>> /\ samples_given # <<>>) =>
    LET v == pctl_out["gateway"][1].value
        ix == pctl_out["gateway"][1].indices
        n == Len(samples_given)
    IN /\ 0 <= ix.lower_index /\ ix.lower_index <= ix.upper_index
       /\ ix.upper_index <= n - 1
       /\ pctl = 100 =>
            /\ \E j \in 1..n : v = R(samples_given[j])
            /\ \A j \in 1..n : ~RLess(v, R(samples_given[j]))
       /\ pctl = 0 =>
            /\ \E j \in 1..n : v = R(samples_given[j])
            /\ \A j \in 1..n : ~RLess(R(samples_given[j]), v)

C22_Witness ==
  /\ pctl_out["gateway"] # <<>>
  /\ samples_given = <<20, 40, 10>>
  /\ pctl = 100
  /\ pctl_out["gateway"][1].value = R(40)
  /\ pctl_out["gateway"][1].indices = [lower_index |-> 2, upper_index |-> 2]

\* C23: the summary of a list holding exactly one value v has count 1,
\* mean = median = p95 = p99 = v and standard deviation 0.
C23_SingleValue ==
  (stats_out # <<>> /\ Len(samples_given) = 1) =>
    LET st == stats_out[1]
        v == R(samples_given[1])
    IN /\ st.count = 1
       /\ st.mean = v /\ st.median = v /\ st.p95 = v /\ st.p99 = v
       /\ st.min = samples_given[1] /\ st.max = samples_given[1]
       /\ st.std_dev = [sqrt_of |-> R(0)]

C23_Witness ==
  /\ stats_out # <<>>
  /\ samples_given = <<30>>
  /\ stats_out[1].count = 1
  /\ stats_out[1].p99 = R(30)

C25_NoSharedState ==
  script = "gateway" =>
    /\ \A b \in Batches :
         batch_result[b] # <<>> => batch_result[b][1] = SuccessLatencies(mlog[b])
    /\ mpc = "returned" =>
         result[1] = compare_latencies_result(endpoint,
                                              SuccessLatencies(mlog["old"]),
                                              SuccessLatencies(mlog["new"]))

C25_Witness ==
  /\ script = "gateway"
  /\ mpc = "returned"
  /\ Len(mlog["old"]) = 2 /\ Len(mlog["new"]) = 2
  /\ result[1].raw_data.old_latencies = <<20>>
  /\ result[1].raw_data.new_latencies = <<10, 10>>
  /\ result[1].additional_latency_ms.mean = R(-10)

OpenClients == {b \in Batches : client[b] = "open"}

\* C26: at most two HTTP clients are open at any instant, one per batch (one
\* at a time in the scripts that run the batches in sequence): a probe is
\* in flight only on the open client of its own batch, and the client of a
\* batch is closed when the batch returns, by an exception or not, so that
\* none is open when the comparison ends and the next endpoint begins.
C26_ClientsClosed ==
  /\ Cardinality(OpenClients) <= (IF script = "gateway" THEN 2 ELSE 1)
  /\ \A b \in Batches :
       /\ inflight[b] # {} => client[b] = "open"
       /\ pc[b] = "done" => client[b] # "open"
       /\ batch_result[b] # <<>> => client[b] # "open"
  /\ result # <<>> => OpenClients = {}

C26_Witness ==
  /\ script = "gateway"
  /\ OpenClients = Batches
  /\ inflight["old"] # {} /\ inflight["new"] # {}

\* C27: a batch of run_latency_test never retries: every warm-up slot and
\* every measured slot issues one GET whatever its outcome, so a batch with
\* count n has issued exactly 3 + n requests when it returns and never
\* more; after a failed probe the batch goes on with the next slot.
C27_NoRetry ==
  script = "gateway" =>
    \A b \in Batches :
      /\ sent[b] <= WarmupRequests + num_requests
      /\ Len(mlog[b]) <= num_requests
      /\ pc[b] = "done" =>
           /\ sent[b] = WarmupRequests + num_requests
           /\ Len(mlog[b]) = num_requests

C27_Witness ==
  /\ script = "gateway"
  /\ num_requests = 2
  /\ pc["old"] = "done"
  /\ sent["old"] = 5
  /\ mlog["old"][1][2] = None
  /\ mlog["old"][2][2] = None
  /\ warnings >= 3

\* C28: a batch run with count 0 returns the empty series without raising,
\* and the comparison built from two such batches carries the no-data
\* marker on both sides and no delta.
C28_CountZero ==
  (script = "gateway" /\ num_requests = 0) =>
    /\ \A b \in Batches :
         /\ mlog[b] = <<>>
         /\ pc[b] = "done" => batch_result[b] = << <<>> >>
    /\ mpc = "returned" =>
         /\ result[1].old_stats = [error |-> "No successful requests"]
         /\ result[1].new_stats = [error |-> "No successful requests"]
         /\ result[1].additional_latency_ms = EmptyDict
         /\ result[1].raw_data = [old_latencies |-> <<>>, new_latencies |-> <<>>]

C28_Witness ==
  /\ script = "gateway"
  /\ num_requests = 0
  /\ mpc = "returned"
  /\ sent = [b \in Batches |-> 3]
  /\ "error" \in DOMAIN result[1].old_stats

\* ---- the drivers' printers (DriverSpec)
\* C29: every entry a driver appends to its results list is accepted by
\* that driver's printers: an entry that is not a data comparison
\* ({endpoint, error} in the gateway driver, {name, old_error, new_error} or
\* {name, error} in the enhanced driver) is recognised as an error entry
\* and passed over without an exception.
C29_ErrorEntriesAccepted ==
  \A j \in DOMAIN results :
    /\ (script = "gateway" /\ "old_stats" \notin DOMAIN results[j]) =>
         "raised" \notin DOMAIN print_results_entry(results[j])
    /\ (script = "enhanced" /\ "old_avg" \notin DOMAIN results[j]) =>
         "raised" \notin DOMAIN print_endpoint_summary(results[j])

\* ---- the report generators on a results file (FileSpec)
\* C30: whenever create_csv_reports or create_excel_report computes the
\* average and the maximum of the executive summary, results_data is not
\* empty, for every results list of the input file, a non-empty list whose
\* entries all carry a top-level error included.
C30_SummaryOverNonEmpty ==
  /\ csv_report # <<>> => csv_report[1].results_data # <<>>
  /\ (excel_report # <<>> /\ "results_data" \in DOMAIN excel_report[1]) =>
       excel_report[1].results_data # <<>>
====
